---------------------------- MODULE Spec2Model ----------------------------
(***************************************************************************)
(* PixelNutEngine: the layer/track stack, the pattern command interpreter, *)
(* the trigger router and the scheduler/compositor of PixelNutEngine.cpp.  *)
(*                                                                         *)
(* The engine object's fields are the VARIABLES, under the names they have *)
(* in PixelNutEngine.h.  Every public method is one action; its body is an *)
(* operator over the record Eng of all fields, translated statement by     *)
(* statement from the C++ source.                                          *)
(***************************************************************************)
EXTENDS Integers, Sequences, FiniteSets, TLC

VARIABLES
  \* constructor arguments (PixelNutEngine.cpp:25-46), fixed afterwards
  numPixels, goUpwards, maxPluginLayers, maxPluginTracks,
  \* the two stacks (PixelNutEngine.h:146-153).  The arrays are held as their
  \* live part, the slots 0..top: a slot above the top holds bytes that malloc
  \* or an earlier stack left, and the model checker reports any read of one.
  pluginLayers, indexLayerStack, indexTrackEnable,
  pluginTracks, indexTrackStack,
  \* scheduling and trigger state (PixelNutEngine.h:104, 155-158)
  timePrevUpdate, curForce, delayOffset,
  \* segment staging (PixelNutEngine.h:163-164)
  segOffset, segCount,
  \* external property mode (PixelNutEngine.h:166-169)
  externPropMode, externDegreeHue, externPcentWhite, externPcentCount,
  \* draw sink and the caller's display buffer (PixelNutEngine.h:98, 161)
  pDrawPixels, displayPixels,
  \* the C++ heap: live plugin objects and live redraw buffers
  plugins, buffers,
  \* the millisecond clock read through pixelNutSupport.getMsecs()
  msecs,
  \* what the last public call was and what it returned / destroyed
  call,
  \* per layer, the count its last N command gave and its automatic triggers
  fires

vars == << numPixels, goUpwards, maxPluginLayers, maxPluginTracks,
           pluginLayers, indexLayerStack, indexTrackEnable,
           pluginTracks, indexTrackStack,
           timePrevUpdate, curForce, delayOffset, segOffset, segCount,
           externPropMode, externDegreeHue, externPcentWhite, externPcentCount,
           pDrawPixels, displayPixels, plugins, buffers, msecs, call, fires >>

---------------------------------------------------------------------------
(* Bounds of the exploration *)

\* pixels of the strip (constructor argument num_pixels)
NumPixels == 3
\* capacity of the layer stack (constructor argument num_layers)
MaxLayers == 3
\* capacity of the track stack (constructor argument num_tracks)
MaxTracks == 2
\* tokens in one command string
MaxTokens == 3
\* plugin objects that are alive and on no layer (leaked) at once
MaxLeaked == 1
\* last value of the millisecond clock that is explored
MaxClock == 2

---------------------------------------------------------------------------
(* Program constants *)

MAX_BYTE_VALUE   == 255
MAX_WORD_VALUE   == 65535
MAX_PERCENTAGE   == 100
MAX_DEGREES_HUE  == 359
MAX_PIXEL_VALUE  == 255
MAX_FORCE_VALUE  == 1000
MAX_DELAY_VALUE  == 60
MAX_PLUGIN_VALUE == 32000

PLUGIN_TYPE_REDRAW == 1

ExtControlBit_DegreeHue  == 1
ExtControlBit_PcentWhite == 2
ExtControlBit_PixCount   == 4
ExtControlBit_All        == 7

Status_Success      == "Success"
Status_Error_BadVal == "BadVal"
Status_Error_BadCmd == "BadCmd"
Status_Error_Memory == "MemoryError"

NULL == 0

---------------------------------------------------------------------------
(* Small helpers *)

Min(a, b) == IF a < b THEN a ELSE b
Max(a, b) == IF a > b THEN a ELSE b

\* C integer division truncates toward zero
CDiv(a, b) == IF a >= 0 THEN a \div b ELSE -((-a) \div b)

\* bit n (value 1, 2 or 4) of a small mask is set
HasBit(mask, bit) == (mask \div bit) % 2 = 1

RECURSIVE BitOr(_, _)
\* bitwise OR of two bytes
BitOr(a, b) ==
  IF a = 0 THEN b
  ELSE IF b = 0 THEN a
  ELSE (IF (a % 2 = 1) \/ (b % 2 = 1) THEN 1 ELSE 0) + 2 * BitOr(a \div 2, b \div 2)

\* lowest free address of a heap whose live addresses are dom
NewAddr(dom) ==
  CHOOSE a \in 1..(Cardinality(dom) + 1) :
    a \notin dom /\ \A b \in 1..(a - 1) : b \in dom

Black == << 0, 0, 0 >>

\* a zeroed pixel array of n pixels (3*n bytes), indexed from 0
ZeroPixels(n) == [i \in 0..(n - 1) |-> Black]

---------------------------------------------------------------------------
(* Numeric argument parsing.  The text after a command letter is modelled  *)
(* as the sequence of its leading decimal digits (<< >> when the first     *)
(* character is not a digit).                                              *)

RECURSIVE atoi(_)
\* value of a digit string
atoi(str) ==
  IF str = << >> THEN 0
  ELSE 10 * atoi(SubSeq(str, 1, Len(str) - 1)) + str[Len(str)]

isdigit(str) == str # << >>

\* set or toggle value according to char at 'str'
GetBoolValue(str, curval) ==
  IF isdigit(str) /\ str[1] = 0 THEN FALSE
  ELSE IF isdigit(str) /\ str[1] = 1 THEN TRUE
  ELSE ~curval

\* returns -1 if no value, or not in range 0-'maxval'
GetNumValue(str, maxval) ==
  IF ~isdigit(str) THEN -1
  ELSE LET newval == atoi(str) IN
       IF newval > maxval THEN -1
       ELSE IF newval < 0 THEN -1
       ELSE newval

\* clips values to range 0-'maxval'; returns 'curval' if no value is specified
GetNumValueClip(str, curval, maxval) ==
  IF ~isdigit(str) THEN curval
  ELSE LET newval == atoi(str) IN
       IF newval > maxval THEN maxval
       ELSE IF newval < 0 THEN 0
       ELSE newval

\* value stored into an int16_t field
ToInt16(v) == ((v + 32768) % 65536) - 32768

\* The millisecond clock and the times derived from it are uint32_t and wrap
\* at 2^32.  TLC's integers end at 2^31 - 1, so the model's clock wraps at 2^30:
\* the longest delay the engine adds to a time, 1000 * (65535 + 65535) msecs,
\* stays far below the wrap, as it does in the program.
TimeWrap == 2^30

\* value stored into a uint32_t time field
ToUint32(v) == v % TimeWrap

---------------------------------------------------------------------------
(* The support library (pixelNutSupport) as the engine uses it *)

clipValue(v, lo, hi) == IF v < lo THEN lo ELSE IF v > hi THEN hi ELSE v

mapValue(inval, in_min, in_max, out_min, out_max) ==
  CDiv((inval - in_min) * (out_max - out_min), in_max - in_min) + out_min

\* RGB triple of a hue on the colour wheel, at full saturation and value
HueRGB(hue) ==
  LET h == hue % 360
      up(x)   == CDiv(MAX_PIXEL_VALUE * x, 120)
      down(x) == MAX_PIXEL_VALUE - CDiv(MAX_PIXEL_VALUE * x, 120)
  IN  IF h < 120 THEN << down(h), up(h), 0 >>
      ELSE IF h < 240 THEN << 0, down(h - 120), up(h - 120) >>
      ELSE << up(h - 240), 0, down(h - 240) >>

\* recompute the RGB values of draw properties from hue, whiteness, brightness
makeColorVals(draw) ==
  LET base == HueRGB(draw.degreeHue)
      wht(c) == c + CDiv((MAX_PIXEL_VALUE - c) * clipValue(draw.pcentWhite, 0, MAX_PERCENTAGE),
                         MAX_PERCENTAGE)
      brt(c) == CDiv(c * clipValue(draw.pcentBright, 0, MAX_PERCENTAGE), MAX_PERCENTAGE)
  IN  [draw EXCEPT !.r = brt(wht(base[1])),
                   !.g = brt(wht(base[2])),
                   !.b = brt(wht(base[3]))]

---------------------------------------------------------------------------
(* The plugin factory and the plugins *)

\* ids of the drawing effects made by PluginFactoryCore::makePlugin
CorePlugins == {0, 1, 2, 10, 20, 30, 40, 50, 51, 52}

\* ids of the predraw effects made by PluginFactoryAdv::makePlugin
AdvPlugins == {100, 101, 110, 111, 112, 120, 131, 142, 150, 160}

\* a plugin object: its id in the factory, the members myid and pixLength set by
\* begin, the force kept from the last trigger and, for PNP_CometHeads, the
\* members firstime, repMode, headCount and the comet heads of cdata
Object(plugin) ==
  [plugin |-> plugin, myid |-> 0, pixLength |-> 0, forceVal |-> 0,
   firstime |-> FALSE, repMode |-> FALSE, headCount |-> 0, heads |-> << >>]

\* the null plugin pointer
NoPlugin == Object(-1)

\* mutant: a factory that makes an object for every id
makePlugin_Any(plugin) == Object(plugin)

\* the object made for a plugin id, or the null pointer
makePlugin(plugin) ==
  IF plugin \in AdvPlugins \cup CorePlugins THEN Object(plugin) ELSE NoPlugin

\* type bits of a plugin object: the drawing effects are redraw plugins
gettype(obj) == IF obj.plugin \in CorePlugins THEN PLUGIN_TYPE_REDRAW ELSE 0

\* mutant: every plugin is taken for a redraw plugin
IsRedraw_Always(obj) == TRUE

IsRedraw(obj) == gettype(obj) % 2 = 1

\* plugin->begin(id, pixlen)
PluginBegin(obj, id, pixlen) ==
  [obj EXCEPT !.myid = id, !.pixLength = pixlen,
              !.firstime = (obj.plugin = 20), !.headCount = 0, !.heads = << >>]

---------------------------------------------------------------------------
(* Records of the two stacks *)

\* a PluginLayer after memset(.., 0, ..)
ZeroLayer ==
  [trigTimeMsecs |-> 0, trigCount |-> 0, trigDelayMin |-> 0, trigDelayRange |-> 0,
   trigForce |-> 0, trigActive |-> FALSE, trigExtern |-> FALSE, trigSource |-> 0,
   track |-> 0, pPlugin |-> NULL]

\* a DrawProps after memset(.., 0, ..)
ZeroDraw ==
  [pixStart |-> 0, pixLen |-> 0, pixCount |-> 0, degreeHue |-> 0, pcentWhite |-> 0,
   pcentBright |-> 0, msecsDelay |-> 0, goUpwards |-> FALSE, orPixelValues |-> FALSE,
   r |-> 0, g |-> 0, b |-> 0]

\* a PluginTrack after memset(.., 0, ..)
ZeroTrack ==
  [msTimeRedraw |-> 0, pRedrawBuff |-> NULL, draw |-> ZeroDraw, layer |-> 0,
   ctrlBits |-> 0, segIndex |-> 0, disable |-> 0, segOffset |-> 0, segCount |-> 0]

\* values of the draw sink pDrawPixels
SinkNull      == [kind |-> "null", addr |-> NULL]
SinkDisplay   == [kind |-> "display", addr |-> NULL]
SinkRedraw(a) == IF a = NULL THEN SinkNull ELSE [kind |-> "redraw", addr |-> a]

---------------------------------------------------------------------------
(* The log of a call: what it did, in the order it did it *)

\* one entry: 'ev' happened to the layer (or, for a merge, the track) i; v is
\* the argument of a command or the time of a trigger
Event(ev, i, v) == [ev |-> ev, i |-> i, v |-> v]

\* the log of e with one more entry
Logged(e, ev, i, v) == [e EXCEPT !.events = Append(@, Event(ev, i, v))]

\* the log of e with the draw sink pDrawPixels that a plugin call of 'layer' finds
Sunk(e, layer) == [e EXCEPT !.sinks = Append(@, << layer, e.pDrawPixels >>)]

---------------------------------------------------------------------------
(* The heap *)

\* mutant: the plugin object is never deleted
DeletePlugin_Leak(e, addr) == e

\* delete pPlugin
DeletePlugin(e, addr) ==
  [e EXCEPT !.plugins = [a \in (DOMAIN e.plugins) \ {addr} |-> e.plugins[a]],
            !.deleted = Append(e.deleted, addr)]

\* free(pRedrawBuff)
FreeBuffer(e, addr) ==
  [e EXCEPT !.buffers = [a \in (DOMAIN e.buffers) \ {addr} |-> e.buffers[a]],
            !.freed = Append(e.freed, addr)]

---------------------------------------------------------------------------
(* Internal stack handling routines *)

RECURSIVE DeleteLayers(_, _, _)
\* the inner loop of clearStack: for (j = first; j < indexLayerStack; ++j) delete
DeleteLayers(e, j, top) ==
  IF j < top
    THEN DeleteLayers(DeletePlugin(e, e.pluginLayers[j].pPlugin), j + 1, top)
    ELSE e

RECURSIVE ClearTracks(_, _)
\* the outer loop of clearStack: for (i = indexTrackStack; i >= 0; --i)
ClearTracks(e, i) ==
  IF i < 0 THEN e
  ELSE
    LET first == e.pluginTracks[i].layer
        count == Max(0, e.indexLayerStack - first)
        e1    == DeleteLayers(e, first, e.indexLayerStack)
        e2    == [e1 EXCEPT !.indexLayerStack = e.indexLayerStack - count]
        e3    == IF e2.pluginTracks[i].pRedrawBuff # NULL
                   THEN FreeBuffer(e2, e2.pluginTracks[i].pRedrawBuff)
                   ELSE e2
    IN  ClearTracks(e3, i - 1)

\* the live part of a stack array whose top is 'top'
Live(array, top) == [i \in 0..top |-> array[i]]

\* mutant: clearStack without 'indexTrackEnable = -1'
clearStack_KeepEnable(e) ==
  LET e1 == ClearTracks(e, e.indexTrackStack)
  IN  [e1 EXCEPT !.indexLayerStack  = -1,
                 !.indexTrackStack  = -1,
                 !.pluginLayers     = Live(e.pluginLayers, -1),
                 !.pluginTracks     = Live(e.pluginTracks, -1),
                 !.segOffset        = 0,
                 !.segCount         = e.numPixels,
                 !.displayPixels    = ZeroPixels(e.numPixels)]

\* mutant: clearStack without the memset of the display buffer
clearStack_NoMemset(e) ==
  LET e1 == ClearTracks(e, e.indexTrackStack)
  IN  [e1 EXCEPT !.indexTrackEnable = -1,
                 !.indexLayerStack  = -1,
                 !.indexTrackStack  = -1,
                 !.pluginLayers     = Live(e.pluginLayers, -1),
                 !.pluginTracks     = Live(e.pluginTracks, -1),
                 !.segOffset        = 0,
                 !.segCount         = e.numPixels]

\* mutant: a clear that pops only the top layer (and its track, if it is the
\* first layer of one)
clearStack_PopLayer(e) ==
  LET top     == e.indexLayerStack
      istrack == top >= 0 /\ e.pluginTracks[e.indexTrackStack].layer = top
      e1      == IF top >= 0 THEN DeletePlugin(e, e.pluginLayers[top].pPlugin) ELSE e
      e2      == IF istrack /\ e.pluginTracks[e.indexTrackStack].pRedrawBuff # NULL
                   THEN FreeBuffer(e1, e.pluginTracks[e.indexTrackStack].pRedrawBuff)
                   ELSE e1
      tracks  == IF istrack THEN e.indexTrackStack - 1 ELSE e.indexTrackStack
      layers  == Max(-1, top - 1)
  IN  [e2 EXCEPT !.indexTrackEnable = Min(e.indexTrackEnable, tracks),
                 !.indexLayerStack  = layers,
                 !.indexTrackStack  = tracks,
                 !.pluginLayers     = Live(e.pluginLayers, layers),
                 !.pluginTracks     = Live(e.pluginTracks, tracks),
                 !.segOffset        = 0,
                 !.segCount         = e.numPixels,
                 !.displayPixels    = ZeroPixels(e.numPixels)]

clearStack(e) ==
  LET e1 == ClearTracks(e, e.indexTrackStack)
  IN  [e1 EXCEPT !.indexTrackEnable = -1,
                 !.indexLayerStack  = -1,
                 !.indexTrackStack  = -1,
                 !.pluginLayers     = Live(e.pluginLayers, -1),
                 !.pluginTracks     = Live(e.pluginTracks, -1),
                 !.segOffset        = 0,
                 !.segCount         = e.numPixels,
                 !.displayPixels    = ZeroPixels(e.numPixels)]

\* the result of an operation that returns a status
Ret(e, status) == [e |-> e, status |-> status]

\* 'new PNP_...': the object obj is on the heap at address pPlugin
NewObject(e, obj, pPlugin) ==
  [e EXCEPT !.plugins = [a \in (DOMAIN e.plugins) \cup {pPlugin} |->
                           IF a = pPlugin THEN obj ELSE e.plugins[a]]]

\* the push of NewPluginLayer: the new layer, for a redraw plugin the new track
\* with its initial draw properties, and plugin->begin()
PushLayer(e0, pPlugin, newtrack, segindex) ==
  LET layerTop == e0.indexLayerStack + 1
      trackTop == IF newtrack THEN e0.indexTrackStack + 1 ELSE e0.indexTrackStack
      pTrack   == [ZeroTrack EXCEPT
                     !.layer     = layerTop,
                     !.segIndex  = segindex,
                     !.segOffset = e0.segOffset,
                     !.segCount  = e0.segCount,
                     !.draw      = makeColorVals(
                                     [ZeroDraw EXCEPT
                                        !.pixLen        = e0.segCount,
                                        !.pcentBright   = MAX_PERCENTAGE,
                                        !.pixCount      = 1,
                                        !.goUpwards     = e0.goUpwards,
                                        !.orPixelValues = TRUE])]
      pLayer   == [ZeroLayer EXCEPT
                     !.track        = trackTop,
                     !.pPlugin      = pPlugin,
                     !.trigCount    = -1,
                     !.trigDelayMin = 1,
                     !.trigSource   = MAX_BYTE_VALUE,
                     !.trigForce    = e0.curForce]
  IN  [e0 EXCEPT
         !.indexLayerStack = layerTop,
         !.indexTrackStack = trackTop,
         !.pluginTracks    = IF newtrack
                               THEN [i \in 0..trackTop |->
                                       IF i = trackTop THEN pTrack
                                       ELSE e0.pluginTracks[i]]
                               ELSE e0.pluginTracks,
         !.pluginLayers    = [i \in 0..layerTop |->
                                IF i = layerTop THEN pLayer
                                ELSE e0.pluginLayers[i]],
         !.plugins         = [e0.plugins EXCEPT
                                ![pPlugin] = PluginBegin(@, layerTop, e0.segCount)],
         !.events          = Append(@, Event("new", layerTop, 0))]

\* the end of NewPluginLayer for a new track: malloc of the redraw buffer, and
\* the pop of the layer and the track when it fails
AllocRedrawBuff(e1, pPlugin, allocOk) ==
  IF ~allocOk
    THEN Ret(DeletePlugin(
               [e1 EXCEPT !.indexTrackStack = e1.indexTrackStack - 1,
                          !.indexLayerStack = e1.indexLayerStack - 1,
                          !.pluginTracks = Live(e1.pluginTracks, e1.indexTrackStack - 1),
                          !.pluginLayers = Live(e1.pluginLayers, e1.indexLayerStack - 1)],
               pPlugin),
             Status_Error_Memory)
  ELSE
    LET p == NewAddr(DOMAIN e1.buffers) IN
    Ret([e1 EXCEPT
           !.buffers = [a \in (DOMAIN e1.buffers) \cup {p} |->
                          IF a = p THEN ZeroPixels(e1.segCount) ELSE e1.buffers[a]],
           !.pluginTracks[e1.indexTrackStack].pRedrawBuff = p],
        Status_Success)

\* NewPluginLayer once the factory has made the plugin at pPlugin
AddPlugin(e0, pPlugin, newtrack, segindex, allocOk) ==
  IF (~newtrack /\ (e0.indexTrackStack < 0)) \/
     (newtrack /\ ((e0.indexTrackStack + 1) >= e0.maxPluginTracks))
    THEN Ret(DeletePlugin(e0, pPlugin),
             IF newtrack THEN Status_Error_Memory ELSE Status_Error_BadCmd)
  ELSE IF ~newtrack
    THEN Ret(PushLayer(e0, pPlugin, newtrack, segindex), Status_Success)
  ELSE AllocRedrawBuff(PushLayer(e0, pPlugin, newtrack, segindex), pPlugin, allocOk)

\* NewPluginLayer(plugin, segindex); allocOk is whether malloc of the redraw
\* buffer succeeds
NewPluginLayer(e, plugin, segindex, allocOk) ==
  IF (e.indexLayerStack + 1) >= e.maxPluginLayers
    THEN Ret(e, Status_Error_Memory)
  ELSE IF makePlugin(plugin) = NoPlugin THEN Ret(e, Status_Error_BadVal)
  ELSE AddPlugin(NewObject(e, makePlugin(plugin), NewAddr(DOMAIN e.plugins)),
                 NewAddr(DOMAIN e.plugins), IsRedraw(makePlugin(plugin)),
                 segindex, allocOk)

---------------------------------------------------------------------------
(* What the plugins do when the engine calls them.  Plugin 0 (PNP_DrawAll) *)
(* draws the current colour to all its pixels on every step; plugin 20     *)
(* (PNP_CometHeads) moves comet heads and sends a force when one is gone;  *)
(* plugin 100 (PNP_HueSet) sets the hue, plugin 111 (PNP_ColorModify) the  *)
(* hue and the whiteness, plugin 120 (PNP_CountSet) the pixel count from   *)
(* the force when triggered; plugin 101 (PNP_HueRotate) rotates the hue on *)
(* every step by an amount set from the force of its last trigger.         *)

\* the absolute value most plugins take of the force
AbsForce(force) == IF force < 0 THEN -force ELSE force

\* the force mapped onto lo..hi
ForceTo(force, lo, hi) ==
  mapValue(Min(AbsForce(force), MAX_FORCE_VALUE), 0, MAX_FORCE_VALUE, lo, hi)

\* pixelNutComets.cometHeadAdd: one more head at the start of the window,
\* unless the comet data is full
cometHeadAdd(obj, dorepeat) ==
  IF Len(obj.heads) < clipValue(obj.pixLength \div 8, 1, 12)
    THEN Append(obj.heads, [pos |-> 0, repeat |-> dorepeat])
    ELSE obj.heads

\* PNP_CometHeads::trigger
CometTrigger(obj, force) ==
  LET doit     == IF obj.firstime THEN force # 0
                  ELSE IF obj.repMode THEN TRUE
                  ELSE force >= 0
      dorepeat == IF obj.firstime THEN force # 0
                  ELSE IF obj.repMode THEN force >= 0
                  ELSE FALSE
      heads    == IF doit THEN cometHeadAdd(obj, dorepeat) ELSE obj.heads
  IN  [obj EXCEPT !.repMode   = IF obj.firstime THEN force # 0 ELSE @,
                  !.firstime  = FALSE,
                  !.heads     = heads,
                  !.headCount = IF doit THEN Len(heads) ELSE @,
                  !.forceVal  = force]

\* what the trigger of the plugin obj does to the draw properties
TriggerDraw(obj, draw, force) ==
  IF obj.plugin = 100
    THEN makeColorVals([draw EXCEPT !.degreeHue = ForceTo(force, 0, MAX_DEGREES_HUE)])
  ELSE IF obj.plugin = 111
    THEN makeColorVals([draw EXCEPT !.degreeHue  = ForceTo(force, 0, MAX_DEGREES_HUE),
                                    !.pcentWhite = ForceTo(force, 0, MAX_PERCENTAGE)])
  ELSE IF obj.plugin = 120
    THEN [draw EXCEPT !.pixCount = ForceTo(force, 1, obj.pixLength)]
  ELSE draw

\* pPlugin->trigger(this, &pTrack->draw, force) of the plugin of 'layer'
PluginTrigger(e, layer, force) ==
  LET track == e.pluginLayers[layer].track
      addr  == e.pluginLayers[layer].pPlugin
      obj   == e.plugins[addr]
  IN  [Sunk(e, layer) EXCEPT
                !.pluginTracks[track].draw = TriggerDraw(obj, @, force),
                !.plugins[addr] = IF obj.plugin = 20 THEN CometTrigger(obj, force)
                                  ELSE IF obj.plugin = 101
                                    THEN [obj EXCEPT !.forceVal = force]
                                  ELSE obj,
                !.events = Append(@, Event("trigger", layer, force))]

---------------------------------------------------------------------------
(* Draw property related routines *)

\* internal: restore property values for bits set for track
RestorePropVals(e, track, pixCount, degreeHue, pcentWhite) ==
  LET pTrack == e.pluginTracks[track] IN
  IF pTrack.disable # 0 THEN e
  ELSE
    LET d1 == IF HasBit(pTrack.ctrlBits, ExtControlBit_PixCount)
                THEN [pTrack.draw EXCEPT !.pixCount = pixCount]
                ELSE pTrack.draw
        setHue == HasBit(pTrack.ctrlBits, ExtControlBit_DegreeHue) /\
                  d1.degreeHue # degreeHue
        d2 == IF setHue THEN [d1 EXCEPT !.degreeHue = degreeHue] ELSE d1
        setWhite == HasBit(pTrack.ctrlBits, ExtControlBit_PcentWhite) /\
                    d2.pcentWhite # pcentWhite
        d3 == IF setWhite THEN [d2 EXCEPT !.pcentWhite = pcentWhite] ELSE d2
        d4 == IF setHue \/ setWhite THEN makeColorVals(d3) ELSE d3
    IN  [e EXCEPT !.pluginTracks[track].draw = d4]

---------------------------------------------------------------------------
(* Trigger force handling routines *)

\* mutant: the properties are not restored after a plugin wrote them
RestoreIfExtern_Never(e, extern, track, pixCount, degreeHue, pcentWhite) == e

\* 'if (externPropMode) RestorePropVals(...)'
RestoreIfExtern(e, extern, track, pixCount, degreeHue, pcentWhite) ==
  IF extern THEN RestorePropVals(e, track, pixCount, degreeHue, pcentWhite) ELSE e

\* the end of triggerLayer: a redraw is due at once, the layer is active
Triggered(e, layer, track, predraw) ==
  [e EXCEPT !.pluginTracks[track].msTimeRedraw = IF predraw THEN @ ELSE e.msecs,
            !.pluginLayers[layer].trigActive = TRUE]

\* mutant: the plugin's trigger runs with the draw sink as it finds it
triggerLayer_NoSink(e, layer, force) ==
  LET pLayer  == e.pluginLayers[layer]
      track   == pLayer.track
      pTrack  == e.pluginTracks[track]
      predraw == ~IsRedraw(e.plugins[pLayer.pPlugin])
      pixCount   == IF e.externPropMode THEN pTrack.draw.pixCount ELSE 0
      degreeHue  == IF e.externPropMode THEN pTrack.draw.degreeHue ELSE 0
      pcentWhite == IF e.externPropMode THEN pTrack.draw.pcentWhite ELSE 0
  IN  Triggered(
        RestoreIfExtern(PluginTrigger(e, layer, force),
                        e.externPropMode, track, pixCount, degreeHue, pcentWhite),
        layer, track, predraw)

triggerLayer(e, layer, force) ==
  LET pLayer  == e.pluginLayers[layer]
      track   == pLayer.track
      pTrack  == e.pluginTracks[track]
      predraw == ~IsRedraw(e.plugins[pLayer.pPlugin])
      \* the snapshot taken in extern mode
      pixCount   == IF e.externPropMode THEN pTrack.draw.pixCount ELSE 0
      degreeHue  == IF e.externPropMode THEN pTrack.draw.degreeHue ELSE 0
      pcentWhite == IF e.externPropMode THEN pTrack.draw.pcentWhite ELSE 0
  IN  Triggered(
        RestoreIfExtern(
          [PluginTrigger(
             [e EXCEPT !.pDrawPixels =
                IF predraw THEN SinkNull ELSE SinkRedraw(pTrack.pRedrawBuff)],
             layer, force)
           EXCEPT !.pDrawPixels = e.pDrawPixels],
          e.externPropMode, track, pixCount, degreeHue, pcentWhite),
        layer, track, predraw)

RECURSIVE triggerForceFrom_All(_, _, _, _)
\* mutant: the loop fires every layer, whatever its trigSource
triggerForceFrom_All(e, i, layer, force) ==
  IF i > e.indexLayerStack THEN e
  ELSE triggerForceFrom_All(triggerLayer(e, i, force), i + 1, layer, force)

RECURSIVE triggerForceFrom(_, _, _, _)
\* the loop of triggerForce(layer, force) from layer i on
triggerForceFrom(e, i, layer, force) ==
  IF i > e.indexLayerStack THEN e
  ELSE triggerForceFrom(
         IF layer = e.pluginLayers[i].trigSource THEN triggerLayer(e, i, force) ELSE e,
         i + 1, layer, force)

\* internal: called from plugins: triggerForce(layer, force)
triggerForceLayer(e, layer, force) == triggerForceFrom(e, 0, layer, force)

\* the pixels of a buffer after a plugin drew 'color' at those of the first
\* pixlen pixels that are in the set 'at' and black at the others
Drawn(pixels, pixlen, color, at) ==
  [i \in DOMAIN pixels |->
     IF i >= pixlen THEN pixels[i] ELSE IF i \in at THEN color ELSE Black]

\* the plugin draws into the draw sink of the engine
DrawPixels(e, pixlen, color, at) ==
  IF e.pDrawPixels.kind = "redraw"
    THEN [e EXCEPT !.buffers[e.pDrawPixels.addr] = Drawn(@, pixlen, color, at)]
  ELSE IF e.pDrawPixels.kind = "display"
    THEN [e EXCEPT !.displayPixels = Drawn(@, pixlen, color, at)]
  ELSE e

\* pixelNutComets.cometHeadDraw: the heads one pixel further; a head at the
\* end of the window starts again if it repeats and is gone if not
cometHeadDraw(obj) ==
  LET moved == [k \in 1..Len(obj.heads) |->
                  [obj.heads[k] EXCEPT !.pos = IF @ + 1 >= obj.pixLength THEN 0 ELSE @ + 1]]
      Remains(h) == h.repeat \/ h.pos # 0
  IN  SelectSeq(moved, Remains)

\* PNP_CometHeads::nextstep
CometNextstep(e, layer) ==
  LET addr  == e.pluginLayers[layer].pPlugin
      obj   == e.plugins[addr]
      draw  == e.pluginTracks[e.pluginLayers[layer].track].draw
      heads == cometHeadDraw(obj)
      e1    == [DrawPixels(e, obj.pixLength, << draw.r, draw.g, draw.b >>,
                           { obj.heads[k].pos : k \in 1..Len(obj.heads) })
                EXCEPT !.plugins[addr].heads = heads]
  IN  IF Len(heads) # obj.headCount
        THEN [triggerForceLayer(e1, obj.myid, obj.forceVal)
              EXCEPT !.plugins[addr].headCount = Len(heads)]
        ELSE e1

\* pPlugin->nextstep(this, &pTrack->draw) of the plugin of 'layer'
PluginNextstep(e, layer) ==
  LET track == e.pluginLayers[layer].track
      obj   == e.plugins[e.pluginLayers[layer].pPlugin]
      draw  == e.pluginTracks[track].draw
  IN  IF obj.plugin = 0
        THEN DrawPixels(Logged(Sunk(e, layer), "nextstep", layer, 0), obj.pixLength,
                        << draw.r, draw.g, draw.b >>, 0..(obj.pixLength - 1))
      ELSE IF obj.plugin = 20
        THEN CometNextstep(Logged(Sunk(e, layer), "nextstep", layer, 0), layer)
      ELSE IF obj.plugin = 101
        THEN [Sunk(e, layer) EXCEPT !.pluginTracks[track].draw =
                makeColorVals([draw EXCEPT !.degreeHue =
                  (@ + ForceTo(obj.forceVal, 0, MAX_DEGREES_HUE)) % (MAX_DEGREES_HUE + 1)]),
                       !.events = Append(@, Event("nextstep", layer, 0))]
      ELSE Logged(Sunk(e, layer), "nextstep", layer, 0)

\* random(lo, hi): a value of lo..hi-1 picked by the draw rnd
Random(lo, hi, rnd) == IF hi <= lo THEN lo ELSE lo + (rnd % (hi - lo))

RECURSIVE CheckAutoTriggerFrom(_, _, _, _)

\* mutant: the count of the automatic triggers is never decremented
Rearm_NoCount(e, i, inp) ==
  LET L == e.pluginLayers[i] IN
  [e EXCEPT !.pluginLayers[i].trigTimeMsecs =
              ToUint32(e.timePrevUpdate +
                (1000 * Random(L.trigDelayMin, L.trigDelayMin + L.trigDelayRange + 1,
                               inp.rndDelay))),
            !.events = Append(@, Event("auto", i, e.timePrevUpdate))]

\* after an automatic trigger of layer i: the time of the next one, and one
\* trigger less to go
Rearm(e, i, inp) ==
  LET L == e.pluginLayers[i] IN
  [e EXCEPT !.pluginLayers[i].trigTimeMsecs =
              ToUint32(e.timePrevUpdate +
                (1000 * Random(L.trigDelayMin, L.trigDelayMin + L.trigDelayRange + 1,
                               inp.rndDelay))),
            !.pluginLayers[i].trigCount = IF @ > 0 THEN @ - 1 ELSE @,
            !.events = Append(@, Event("auto", i, e.timePrevUpdate))]

\* one pass of the loop of CheckAutoTrigger for the enabled layer i, after the
\* rebase of its trigger time on a rollover
CheckLayer(e, i, rollover, inp) ==
  LET L == e.pluginLayers[i] IN
  IF L.trigActive /\ (L.trigCount # 0) /\ (L.trigTimeMsecs > 0) /\
     (L.trigTimeMsecs <= e.timePrevUpdate)
    THEN CheckAutoTriggerFrom(
           Rearm(triggerLayer(e, i,
                   IF L.trigForce >= 0
                     THEN L.trigForce
                     ELSE Random(0, MAX_FORCE_VALUE + 1, inp.rndForce)),
                 i, inp),
           i + 1, rollover, inp)
    ELSE CheckAutoTriggerFrom(e, i + 1, rollover, inp)

\* the loop of CheckAutoTrigger from layer i on
CheckAutoTriggerFrom(e, i, rollover, inp) ==
  IF i > e.indexLayerStack THEN e
  ELSE IF e.pluginLayers[i].track > e.indexTrackEnable THEN e \* not enabled yet
  ELSE CheckLayer(IF rollover /\ (e.pluginLayers[i].trigTimeMsecs > 0)
                    THEN [e EXCEPT !.pluginLayers[i].trigTimeMsecs = e.timePrevUpdate]
                    ELSE e,
                  i, rollover, inp)

\* internal: check for any automatic triggering
CheckAutoTrigger(e, rollover, inp) == CheckAutoTriggerFrom(e, 0, rollover, inp)

RECURSIVE TriggerExternFrom_All(_, _, _)
\* mutant: the loop fires every layer, whatever its trigExtern
TriggerExternFrom_All(e, i, force) ==
  IF i > e.indexLayerStack THEN e
  ELSE TriggerExternFrom_All(triggerLayer(e, i, force), i + 1, force)

RECURSIVE TriggerExternFrom(_, _, _)
\* the loop of triggerForce(force) from layer i on
TriggerExternFrom(e, i, force) ==
  IF i > e.indexLayerStack THEN e
  ELSE TriggerExternFrom(
         IF e.pluginLayers[i].trigExtern THEN triggerLayer(e, i, force) ELSE e,
         i + 1, force)

\* external: cause trigger if enabled in track
triggerForce(e, force) ==
  TriggerExternFrom([e EXCEPT !.curForce = force], 0, force)

---------------------------------------------------------------------------
(* Delay offset *)

\* 'void setDelayOffset(int8_t msecs) { delayOffset = msecs; }'
setDelayOffset(e, offs) == [e EXCEPT !.delayOffset = offs]

---------------------------------------------------------------------------
(* External property control *)

setPropertyMode(e, enable) == [e EXCEPT !.externPropMode = enable]

RECURSIVE SetPropColorFrom(_, _)
SetPropColorFrom(e, i) ==
  IF i > e.indexTrackStack THEN e
  ELSE
    LET pTrack == e.pluginTracks[i] IN
    IF pTrack.disable # 0 THEN SetPropColorFrom(e, i + 1)
    ELSE
      LET setHue   == HasBit(pTrack.ctrlBits, ExtControlBit_DegreeHue)
          setWhite == HasBit(pTrack.ctrlBits, ExtControlBit_PcentWhite)
          d1 == IF setHue
                  THEN [pTrack.draw EXCEPT !.degreeHue = e.externDegreeHue]
                  ELSE pTrack.draw
          d2 == IF setWhite THEN [d1 EXCEPT !.pcentWhite = e.externPcentWhite] ELSE d1
          d3 == IF setHue \/ setWhite THEN makeColorVals(d2) ELSE d2
      IN  SetPropColorFrom([e EXCEPT !.pluginTracks[i].draw = d3], i + 1)

\* mutant: the colour property is set on every track, whatever its ctrlBits
SetPropColor_All(e) ==
  [e EXCEPT !.pluginTracks =
     [i \in DOMAIN e.pluginTracks |->
        [e.pluginTracks[i] EXCEPT !.draw =
           makeColorVals([@ EXCEPT !.degreeHue  = e.externDegreeHue,
                                   !.pcentWhite = e.externPcentWhite])]]]

SetPropColor(e) == SetPropColorFrom(e, 0)

\* mutant: the colour property is set on the tracks whatever the property mode
setColorProperty_Always(e, hue_degree, white_percent) ==
  SetPropColor([e EXCEPT
                  !.externDegreeHue  = clipValue(hue_degree, 0, MAX_DEGREES_HUE),
                  !.externPcentWhite = clipValue(white_percent, 0, MAX_PERCENTAGE)])

setColorProperty(e, hue_degree, white_percent) ==
  LET e1 == [e EXCEPT
               !.externDegreeHue  = clipValue(hue_degree, 0, MAX_DEGREES_HUE),
               !.externPcentWhite = clipValue(white_percent, 0, MAX_PERCENTAGE)]
  IN  IF e1.externPropMode THEN SetPropColor(e1) ELSE e1

RECURSIVE SetPropCountFrom(_, _)
SetPropCountFrom(e, i) ==
  IF i > e.indexTrackStack THEN e
  ELSE
    LET pTrack == e.pluginTracks[i] IN
    IF pTrack.disable # 0 THEN SetPropCountFrom(e, i + 1)
    ELSE IF HasBit(pTrack.ctrlBits, ExtControlBit_PixCount)
      THEN SetPropCountFrom(
             [e EXCEPT !.pluginTracks[i].draw.pixCount =
                mapValue(e.externPcentCount, 0, MAX_PERCENTAGE, 1, pTrack.segCount)],
             i + 1)
      ELSE SetPropCountFrom(e, i + 1)

SetPropCount(e) == SetPropCountFrom(e, 0)

setCountProperty(e, pixcount_percent) ==
  LET e1 == [e EXCEPT !.externPcentCount =
               clipValue(pixcount_percent, 0, MAX_PERCENTAGE)]
  IN  IF e1.externPropMode THEN SetPropCount(e1) ELSE e1

---------------------------------------------------------------------------
(* Main command handler.  A token is [c |-> letter, a |-> digits]: the     *)
(* upper-cased first character of the token and the digits that follow it. *)

\* the switch of execCmdStr for a token that needs a track (pdraw != NULL)
ExecTrackCmd(e, cmd, inp) ==
  LET t     == e.indexTrackStack
      l     == e.indexLayerStack
      pdraw == e.pluginTracks[t].draw
      str   == cmd.a
      Draw(d)  == Ret([e EXCEPT !.pluginTracks[t].draw = d], Status_Success)
      Layer(L) == Ret([e EXCEPT !.pluginLayers[l] = L], Status_Success)
      pLayer   == e.pluginLayers[l]
  IN
  CASE cmd.c = "J" ->
         Draw([pdraw EXCEPT !.pixStart =
           CDiv(GetNumValueClip(str, 0, MAX_PERCENTAGE) * (e.numPixels - 1), MAX_PERCENTAGE)])
    [] cmd.c = "K" ->
         Draw([pdraw EXCEPT !.pixLen =
           CDiv(GetNumValueClip(str, 0, MAX_PERCENTAGE) * (e.numPixels - 1), MAX_PERCENTAGE) + 1])
    [] cmd.c = "U" ->
         Draw([pdraw EXCEPT !.goUpwards = GetBoolValue(str, pdraw.goUpwards)])
    [] cmd.c = "V" ->
         Draw([pdraw EXCEPT !.orPixelValues = ~GetBoolValue(str, ~pdraw.orPixelValues)])
    [] cmd.c = "H" ->
         Draw(makeColorVals([pdraw EXCEPT !.degreeHue =
           GetNumValueClip(str, pdraw.degreeHue, MAX_DEGREES_HUE)]))
    [] cmd.c = "W" ->
         Draw(makeColorVals([pdraw EXCEPT !.pcentWhite =
           GetNumValueClip(str, pdraw.pcentWhite, MAX_PERCENTAGE)]))
    [] cmd.c = "B" ->
         Draw(makeColorVals([pdraw EXCEPT !.pcentBright =
           GetNumValueClip(str, pdraw.pcentBright, MAX_PERCENTAGE)]))
    [] cmd.c = "C" ->
         LET curvalue == CDiv(pdraw.pixCount * MAX_PERCENTAGE, e.segCount)
             percent  == GetNumValueClip(str, curvalue, MAX_PERCENTAGE)
         IN  Draw([pdraw EXCEPT !.pixCount =
                     mapValue(percent, 0, MAX_PERCENTAGE, 1, e.segCount)])
    [] cmd.c = "D" ->
         Draw([pdraw EXCEPT !.msecsDelay =
           GetNumValueClip(str, pdraw.msecsDelay, MAX_DELAY_VALUE)])
    [] cmd.c = "Q" ->
         LET bits == GetNumValue(str, ExtControlBit_All) IN
         IF bits < 0 THEN Ret(e, Status_Success)
         ELSE
           LET e1 == [e EXCEPT !.pluginTracks[t].ctrlBits = bits] IN
           IF ~e.externPropMode THEN Ret(e1, Status_Success)
           ELSE
             LET d1 == IF HasBit(bits, ExtControlBit_DegreeHue)
                         THEN [pdraw EXCEPT !.degreeHue = e.externDegreeHue]
                         ELSE pdraw
                 d2 == IF HasBit(bits, ExtControlBit_PcentWhite)
                         THEN [d1 EXCEPT !.pcentWhite = e.externPcentWhite]
                         ELSE d1
                 d3 == IF HasBit(bits, ExtControlBit_PixCount)
                         THEN [d2 EXCEPT !.pixCount =
                                 mapValue(e.externPcentCount, 0, MAX_PERCENTAGE, 1,
                                          e.pluginTracks[t].segCount)]
                         ELSE d2
             IN  Ret([e1 EXCEPT !.pluginTracks[t].draw = makeColorVals(d3)],
                     Status_Success)
    [] cmd.c = "I" ->
         Layer([pLayer EXCEPT !.trigExtern =
           IF isdigit(str) THEN GetBoolValue(str, FALSE) ELSE TRUE])
    [] cmd.c = "A" ->
         Layer([pLayer EXCEPT !.trigSource = GetNumValueClip(str, 0, MAX_BYTE_VALUE)])
    [] cmd.c = "F" ->
         Layer([pLayer EXCEPT !.trigForce =
           IF isdigit(str) THEN GetNumValueClip(str, 0, MAX_FORCE_VALUE) ELSE -1])
    [] cmd.c = "N" ->
         LET count == ToInt16(GetNumValueClip(str, 0, MAX_WORD_VALUE)) IN
         Ret([e EXCEPT !.pluginLayers[l].trigCount = IF count = 0 THEN -1 ELSE count,
                       !.events = Append(@, Event("N", l, GetNumValueClip(str, 0, MAX_WORD_VALUE)))],
             Status_Success)
    [] cmd.c = "O" ->
         LET min == GetNumValueClip(str, 1, MAX_WORD_VALUE) IN
         Layer([pLayer EXCEPT !.trigDelayMin = IF min # 0 THEN min ELSE 1])
    [] cmd.c = "T" ->
         LET force == IF pLayer.trigForce < 0
                        THEN Random(0, MAX_FORCE_VALUE + 1, inp.rndForce)
                        ELSE pLayer.trigForce
             range == GetNumValueClip(str, 0, MAX_WORD_VALUE)
             e1 == IF isdigit(str)
                     THEN [e EXCEPT
                             !.pluginLayers[l].trigDelayRange = range,
                             !.pluginLayers[l].trigTimeMsecs =
                               ToUint32(e.msecs +
                                 (1000 * Random(pLayer.trigDelayMin,
                                                pLayer.trigDelayMin + range + 1,
                                                inp.rndDelay)))]
                     ELSE e
         IN  Ret(triggerLayer(Logged(e1, "T", l, e.msecs), l, force), Status_Success)
    [] cmd.c = "G" ->
         Ret(IF e.indexTrackEnable # e.indexTrackStack
               THEN [e EXCEPT !.indexTrackEnable = e.indexTrackStack]
               ELSE e,
             Status_Success)
    [] OTHER -> Ret(e, Status_Error_BadCmd)

\* what a token did: the state and status r, and the local 'segindex'
Out(r, segindex) == [e |-> r.e, status |-> r.status, segindex |-> segindex]

\* mutant: a command that needs a track succeeds when there is none
ExecToken_NoTrackOk(e, cmd, segindex, inp) ==
  IF cmd.c = "X" THEN
    LET pos == GetNumValue(cmd.a, e.numPixels - 1) IN
    Out(Ret([e EXCEPT !.segOffset = IF pos >= 0 THEN pos ELSE 0], Status_Success),
        segindex)
  ELSE IF cmd.c = "Y" THEN
    LET count == GetNumValue(cmd.a, e.numPixels - e.segOffset) IN
    IF count > 0
      THEN Out(Ret([e EXCEPT !.segCount = count], Status_Success), segindex + 1)
      ELSE Out(Ret([e EXCEPT !.segCount = e.numPixels], Status_Success), segindex)
  ELSE IF cmd.c = "E" THEN
    LET plugin == GetNumValue(cmd.a, MAX_PLUGIN_VALUE) IN
    IF plugin >= 0
      THEN Out(NewPluginLayer(e, plugin, IF segindex < 0 THEN 0 ELSE segindex,
                              inp.allocOk),
               segindex)
      ELSE Out(Ret(e, Status_Error_BadVal), segindex)
  ELSE IF cmd.c = "P" THEN
    Out(Ret([clearStack(e) EXCEPT !.timePrevUpdate = 0], Status_Success), segindex)
  ELSE IF e.indexTrackStack >= 0 THEN
    Out(ExecTrackCmd(e, cmd, inp), segindex)
  ELSE Out(Ret(e, Status_Success), segindex)

\* one pass of the do-while loop of execCmdStr: the state, the status and the
\* local 'segindex' after the token 'cmd'
ExecToken(e, cmd, segindex, inp) ==
  IF cmd.c = "X" THEN
    LET pos == GetNumValue(cmd.a, e.numPixels - 1) IN
    Out(Ret([e EXCEPT !.segOffset = IF pos >= 0 THEN pos ELSE 0], Status_Success),
        segindex)
  ELSE IF cmd.c = "Y" THEN
    LET count == GetNumValue(cmd.a, e.numPixels - e.segOffset) IN
    IF count > 0
      THEN Out(Ret([e EXCEPT !.segCount = count], Status_Success), segindex + 1)
      ELSE Out(Ret([e EXCEPT !.segCount = e.numPixels], Status_Success), segindex)
  ELSE IF cmd.c = "E" THEN
    LET plugin == GetNumValue(cmd.a, MAX_PLUGIN_VALUE) IN
    IF plugin >= 0
      THEN Out(NewPluginLayer(e, plugin, IF segindex < 0 THEN 0 ELSE segindex,
                              inp.allocOk),
               segindex)
      ELSE Out(Ret(e, Status_Error_BadVal), segindex)
  ELSE IF cmd.c = "P" THEN
    Out(Ret([clearStack(e) EXCEPT !.timePrevUpdate = 0], Status_Success), segindex)
  ELSE IF e.indexTrackStack >= 0 THEN
    Out(ExecTrackCmd(e, cmd, inp), segindex)
  ELSE Out(Ret(e, Status_Error_BadCmd), segindex)

RECURSIVE ExecTokens(_, _, _, _, _)

\* mutant: the loop goes on after a token that failed
AfterToken_Continue(r, cmdstr, k, inp) ==
  IF k = Len(cmdstr) THEN [e |-> r.e, status |-> r.status, done |-> k]
  ELSE ExecTokens(r.e, cmdstr, k + 1, r.segindex, inp)

\* the end of a pass of the do-while loop of execCmdStr, r being what token k
\* did: break on a failure, else go on to the next token if there is one
AfterToken(r, cmdstr, k, inp) ==
  IF r.status # Status_Success THEN [e |-> r.e, status |-> r.status, done |-> k]
  ELSE IF k = Len(cmdstr) THEN [e |-> r.e, status |-> r.status, done |-> k]
  ELSE ExecTokens(r.e, cmdstr, k + 1, r.segindex, inp)

\* the do-while loop of execCmdStr from token k on; 'done' counts the tokens
\* that were executed
ExecTokens(e, cmdstr, k, segindex, inp) ==
  AfterToken(ExecToken(e, cmdstr[k], segindex, inp), cmdstr, k, inp)

\* execCmdStr(cmdstr): cmdstr is the sequence of the tokens strtok() finds
execCmdStr(e, cmdstr, inp) ==
  IF cmdstr = << >>
    THEN [e |-> e, status |-> Status_Success, done |-> 0] \* ignore empty line
    ELSE ExecTokens(e, cmdstr, 1, -1, inp)

---------------------------------------------------------------------------
(* Pixel buffer renderer *)

RECURSIVE PredrawSteps(_, _, _)
\* call nextstep of all the active predraw effects of track i, from layer j on
PredrawSteps(e, i, j) ==
  IF j > e.indexLayerStack THEN e
  ELSE
    LET L == e.pluginLayers[j] IN
    PredrawSteps(
      IF (L.track = i) /\ L.trigActive /\ ~IsRedraw(e.plugins[L.pPlugin])
        THEN PluginNextstep(e, j)
        ELSE e,
      i, j + 1)

RECURSIVE RedrawTracks(_, _, _)

\* the drawing effect of track i draws into the track's buffer
DrawStep(e, i) ==
  PluginNextstep(
    [e EXCEPT !.pDrawPixels = SinkRedraw(e.pluginTracks[i].pRedrawBuff)],
    e.pluginTracks[i].layer)

\* mutant: the time of the next redraw advances by the delay, also when it is 0
NextRedraw_NoMin(e, i) ==
  LET sum == ToInt16(e.pluginTracks[i].draw.msecsDelay + e.delayOffset)
  IN  [e EXCEPT !.pDrawPixels = SinkDisplay,
                !.pluginTracks[i].msTimeRedraw = ToUint32(e.timePrevUpdate + sum)]

\* after the drawing effect of track i: the sink is the display buffer again,
\* and the time of the next redraw advances by the delay, by at least 1
NextRedraw(e, i) ==
  LET sum     == ToInt16(e.pluginTracks[i].draw.msecsDelay + e.delayOffset)
      addtime == IF sum <= 0 THEN 1 ELSE sum
  IN  [e EXCEPT !.pDrawPixels = SinkDisplay,
                !.pluginTracks[i].msTimeRedraw = ToUint32(e.timePrevUpdate + addtime)]

\* mutant: the drawing effect of the track steps before its predraw effects
RedrawTrack_DrawFirst(e, i) ==
  NextRedraw(PredrawSteps([DrawStep(e, i) EXCEPT !.pDrawPixels = SinkNull], i, 0), i)

\* the redraw of track i: its predraw effects with no sink, the restore of the
\* properties in extern mode, then its drawing effect
RedrawTrack(e, i) ==
  LET pTrack     == e.pluginTracks[i]
      pixCount   == IF e.externPropMode THEN pTrack.draw.pixCount ELSE 0
      degreeHue  == IF e.externPropMode THEN pTrack.draw.degreeHue ELSE 0
      pcentWhite == IF e.externPropMode THEN pTrack.draw.pcentWhite ELSE 0
  IN  NextRedraw(
        DrawStep(
          RestoreIfExtern(PredrawSteps([e EXCEPT !.pDrawPixels = SinkNull], i, 0),
                          e.externPropMode, i, pixCount, degreeHue, pcentWhite),
          i),
        i)

\* 'doshow = true' for the tracks from i on, r being what the later tracks did
Shown(r) == [e |-> r.e, doshow |-> TRUE]

\* one pass of the first loop of updateEffects for the redraw track i, after
\* the rebase of its redraw time on a rollover
RedrawIfReady(e, i, rollover) ==
  LET pTrack == e.pluginTracks[i] IN
  IF ~e.pluginLayers[pTrack.layer].trigActive THEN RedrawTracks(e, i + 1, rollover)
  ELSE IF pTrack.msTimeRedraw > e.timePrevUpdate THEN RedrawTracks(e, i + 1, rollover)
  ELSE Shown(RedrawTracks(RedrawTrack(e, i), i + 1, rollover))

\* the first loop of updateEffects from track i on: the redraw effects that are
\* ready draw into their own buffers; .doshow tells whether any of them did
RedrawTracks(e, i, rollover) ==
  IF i > e.indexTrackStack THEN [e |-> e, doshow |-> FALSE]
  ELSE IF i > e.indexTrackEnable THEN [e |-> e, doshow |-> FALSE]
  ELSE IF ~IsRedraw(e.plugins[e.pluginLayers[e.pluginTracks[i].layer].pPlugin])
    THEN RedrawTracks(e, i + 1, rollover)
  ELSE RedrawIfReady(IF rollover
                       THEN [e EXCEPT !.pluginTracks[i].msTimeRedraw = e.timePrevUpdate]
                       ELSE e,
                     i, rollover)

\* the pixel at index p of a redraw buffer; a read past its end gives the
\* indeterminate value 'garbage'
ReadPixel(buf, p, garbage) == IF p \in DOMAIN buf THEN buf[p] ELSE garbage

\* mutant: a merge that overwrites also where the source is black
MergePixel_Replace(dst, src, orPixelValues) ==
  IF orPixelValues
    THEN << BitOr(dst[1], src[1]), BitOr(dst[2], src[2]), BitOr(dst[3], src[3]) >>
    ELSE src

\* mutant: a merge that ORs whatever the track's orPixelValues
MergePixel_Or(dst, src, orPixelValues) ==
  << BitOr(dst[1], src[1]), BitOr(dst[2], src[2]), BitOr(dst[3], src[3]) >>

\* one pixel merged into the display: OR, or overwrite where the source is not black
MergePixel(dst, src, orPixelValues) ==
  IF orPixelValues
    THEN << BitOr(dst[1], src[1]), BitOr(dst[2], src[2]), BitOr(dst[3], src[3]) >>
  ELSE IF (src[1] # 0) \/ (src[2] # 0) \/ (src[3] # 0) THEN src
  ELSE dst

RECURSIVE MergeLoop_OneEnd(_, _, _, _, _, _, _, _)
\* mutant: the loop stops at pixend in both directions
MergeLoop_OneEnd(e, i, pix, ypix, pixstart, pixend, n, inp) ==
  LET pTrack  == e.pluginTracks[i]
      pixlast == e.numPixels - 1
      buf     == e.buffers[pTrack.pRedrawBuff]
      src     == ReadPixel(buf, ypix, inp.garbage)
      e1 == [e EXCEPT
               !.displayPixels =
                  IF pix \in DOMAIN e.displayPixels
                    THEN [e.displayPixels EXCEPT
                            ![pix] = MergePixel(@, src, pTrack.draw.orPixelValues)]
                    ELSE e.displayPixels,
               !.oobRead  = @ \/ (ypix \notin DOMAIN buf),
               !.oobWrite = @ \/ (pix \notin DOMAIN e.displayPixels),
               !.merged   = Append(@, << i, pix, ypix >>)]
      ynext == IF ypix >= pixlast THEN 0 ELSE ypix + 1
  IN
  IF n > 2 * e.numPixels THEN [e1 EXCEPT !.runaway = TRUE]
  ELSE IF pix = pixend THEN e1
  ELSE IF pTrack.draw.goUpwards
    THEN MergeLoop_OneEnd(e1, i, IF pix >= pixlast THEN 0 ELSE pix + 1, ynext,
                          pixstart, pixend, n + 1, inp)
    ELSE MergeLoop_OneEnd(e1, i, IF pix <= 0 THEN pixlast ELSE pix - 1, ynext,
                          pixstart, pixend, n + 1, inp)

RECURSIVE MergeLoop(_, _, _, _, _, _, _, _)
\* the while(true) loop of the compositor for track i: 'pix' is the display
\* pixel (x = 3*pix), 'ypix' the source pixel (y = 3*ypix), 'n' the passes so far
MergeLoop(e, i, pix, ypix, pixstart, pixend, n, inp) ==
  LET pTrack  == e.pluginTracks[i]
      pixlast == e.numPixels - 1
      buf     == e.buffers[pTrack.pRedrawBuff]
      src     == ReadPixel(buf, ypix, inp.garbage)
      e1 == [e EXCEPT
               !.displayPixels =
                  IF pix \in DOMAIN e.displayPixels
                    THEN [e.displayPixels EXCEPT
                            ![pix] = MergePixel(@, src, pTrack.draw.orPixelValues)]
                    ELSE e.displayPixels,
               !.oobRead  = @ \/ (ypix \notin DOMAIN buf),
               !.oobWrite = @ \/ (pix \notin DOMAIN e.displayPixels),
               !.merged   = Append(@, << i, pix, ypix >>)]
      ynext == IF ypix >= pixlast THEN 0 ELSE ypix + 1
  IN
  IF n > 2 * e.numPixels THEN [e1 EXCEPT !.runaway = TRUE]
  ELSE IF pTrack.draw.goUpwards THEN
    IF pix = pixend THEN e1
    ELSE MergeLoop(e1, i, IF pix >= pixlast THEN 0 ELSE pix + 1, ynext,
                   pixstart, pixend, n + 1, inp)
  ELSE
    IF pix = pixstart THEN e1
    ELSE MergeLoop(e1, i, IF pix <= 0 THEN pixlast ELSE pix - 1, ynext,
                   pixstart, pixend, n + 1, inp)

RECURSIVE MergeTracks(_, _, _)

\* mutant: the merge does not stop at the last enabled track
MergeTracks_All(e, i, inp) ==
  IF i > e.indexTrackStack THEN e
  ELSE
    LET pTrack   == e.pluginTracks[i]
        pixlast  == e.numPixels - 1
        start0   == pTrack.segOffset + pTrack.draw.pixStart
        pixstart == IF start0 > pixlast THEN start0 - (pixlast + 1) ELSE start0
        end0     == pixstart + pTrack.draw.pixLen - 1
        pixend   == IF end0 > pixlast THEN end0 - (pixlast + 1) ELSE end0
        pix      == IF pTrack.draw.goUpwards THEN pixstart ELSE pixend
    IN  MergeTracks(
          MergeLoop(Logged(e, "merge", i, 0), i, pix, pTrack.draw.pixStart,
                    pixstart, pixend, 1, inp),
          i + 1, inp)

\* the second loop of updateEffects from track i on: merge all buffers
MergeTracks(e, i, inp) ==
  IF i > e.indexTrackStack THEN e
  ELSE IF i > e.indexTrackEnable THEN e
  ELSE IF ~IsRedraw(e.plugins[e.pluginLayers[e.pluginTracks[i].layer].pPlugin])
    THEN MergeTracks(e, i + 1, inp)
  ELSE
    LET pTrack   == e.pluginTracks[i]
        pixlast  == e.numPixels - 1
        start0   == pTrack.segOffset + pTrack.draw.pixStart
        pixstart == IF start0 > pixlast THEN start0 - (pixlast + 1) ELSE start0
        end0     == pixstart + pTrack.draw.pixLen - 1
        pixend   == IF end0 > pixlast THEN end0 - (pixlast + 1) ELSE end0
        pix      == IF pTrack.draw.goUpwards THEN pixstart ELSE pixend
    IN  MergeTracks(
          MergeLoop(Logged(e, "merge", i, 0), i, pix, pTrack.draw.pixStart,
                    pixstart, pixend, 1, inp),
          i + 1, inp)

\* the end of updateEffects, r being what the first loop did and doshow
\* whether to show: clear the display buffer and merge all the track buffers
Merge(r, doshow, inp) ==
  IF doshow
    THEN [e |-> MergeTracks([r.e EXCEPT !.displayPixels = ZeroPixels(r.e.numPixels)],
                            0, inp),
          doshow |-> TRUE]
    ELSE [e |-> r.e, doshow |-> FALSE]

\* updateEffects after CheckAutoTrigger; doshow0 is 'timePrevUpdate == 0'
Redraw(r, doshow0, inp) == Merge(r, doshow0 \/ r.doshow, inp)

\* updateEffects(): the state after the call and the value it returns
updateEffects(e, inp) ==
  Redraw(RedrawTracks(CheckAutoTrigger([e EXCEPT !.timePrevUpdate = e.msecs],
                                       e.timePrevUpdate > e.msecs, inp),
                      0, e.timePrevUpdate > e.msecs),
         e.timePrevUpdate = 0, inp)

---------------------------------------------------------------------------
(* The state machine *)

\* the record of what a call did that is not a field of the engine
NoLog ==
  [deleted |-> << >>, freed |-> << >>, merged |-> << >>, events |-> << >>,
   sinks |-> << >>, oobRead |-> FALSE, oobWrite |-> FALSE, runaway |-> FALSE]

\* the engine, the heap and the clock as one record, with an empty log
Eng ==
  [numPixels |-> numPixels, goUpwards |-> goUpwards,
   maxPluginLayers |-> maxPluginLayers, maxPluginTracks |-> maxPluginTracks,
   pluginLayers |-> pluginLayers, indexLayerStack |-> indexLayerStack,
   indexTrackEnable |-> indexTrackEnable,
   pluginTracks |-> pluginTracks, indexTrackStack |-> indexTrackStack,
   timePrevUpdate |-> timePrevUpdate, curForce |-> curForce,
   delayOffset |-> delayOffset, segOffset |-> segOffset, segCount |-> segCount,
   externPropMode |-> externPropMode, externDegreeHue |-> externDegreeHue,
   externPcentWhite |-> externPcentWhite, externPcentCount |-> externPcentCount,
   pDrawPixels |-> pDrawPixels, displayPixels |-> displayPixels,
   plugins |-> plugins, buffers |-> buffers, msecs |-> msecs,
   deleted |-> NoLog.deleted, freed |-> NoLog.freed, merged |-> NoLog.merged,
   events |-> NoLog.events, sinks |-> NoLog.sinks,
   oobRead |-> NoLog.oobRead, oobWrite |-> NoLog.oobWrite, runaway |-> NoLog.runaway]

\* the next state holds the fields of e
Becomes(e) ==
  /\ numPixels' = e.numPixels
  /\ goUpwards' = e.goUpwards
  /\ maxPluginLayers' = e.maxPluginLayers
  /\ maxPluginTracks' = e.maxPluginTracks
  /\ pluginLayers' = e.pluginLayers
  /\ indexLayerStack' = e.indexLayerStack
  /\ indexTrackEnable' = e.indexTrackEnable
  /\ pluginTracks' = e.pluginTracks
  /\ indexTrackStack' = e.indexTrackStack
  /\ timePrevUpdate' = e.timePrevUpdate
  /\ curForce' = e.curForce
  /\ delayOffset' = e.delayOffset
  /\ segOffset' = e.segOffset
  /\ segCount' = e.segCount
  /\ externPropMode' = e.externPropMode
  /\ externDegreeHue' = e.externDegreeHue
  /\ externPcentWhite' = e.externPcentWhite
  /\ externPcentCount' = e.externPcentCount
  /\ pDrawPixels' = e.pDrawPixels
  /\ displayPixels' = e.displayPixels
  /\ plugins' = e.plugins
  /\ buffers' = e.buffers
  /\ msecs' = e.msecs

\* the record of a call: the method, its arguments, whether malloc succeeded in
\* it, what it returned, the log of what it destroyed and merged, and which
\* clear (if any) was made between the updateEffects before it and the call
Called(op, cmdstr, force, alloc, status, done, doshow, e, cleared) ==
  [op |-> op, cmdstr |-> cmdstr, force |-> force, alloc |-> alloc, status |-> status,
   done |-> done, doshow |-> doshow, cleared |-> cleared,
   deleted |-> e.deleted, freed |-> e.freed, merged |-> e.merged, events |-> e.events,
   sinks |-> e.sinks,
   oobRead |-> e.oobRead, oobWrite |-> e.oobWrite, runaway |-> e.runaway]

\* the clear made since the last updateEffects: "P", "clearStack" or "none"
ClearedSince == IF call.op = "updateEffects" THEN "none" ELSE call.cleared

\* the state after the constructor, for a strip of n pixels whose buffer holds
\* the pixels 'pixels', nl layers and nt tracks; the extern values are not
\* initialised by the constructor and hold the indeterminate values hue, white, count
Constructed(n, up, nl, nt, pixels, hue, white, count) ==
  /\ numPixels = n
  /\ goUpwards = up
  /\ maxPluginLayers = nl
  /\ maxPluginTracks = nt
  /\ pluginLayers = << >>
  /\ pluginTracks = << >>
  /\ indexLayerStack = -1
  /\ indexTrackEnable = -1
  /\ indexTrackStack = -1
  /\ timePrevUpdate = 0
  /\ curForce = MAX_FORCE_VALUE \div 2
  /\ delayOffset = 0
  /\ segOffset = 0
  /\ segCount = n
  /\ externPropMode = FALSE
  /\ externDegreeHue = hue
  /\ externPcentWhite = white
  /\ externPcentCount = count
  /\ pDrawPixels = SinkDisplay
  /\ displayPixels = pixels
  /\ plugins = << >>
  /\ buffers = << >>
  /\ msecs = 0
  /\ call = Called("constructor", << >>, 0, TRUE, Status_Success, 0, FALSE, NoLog, "none")
  /\ fires = << >>

\* the inputs of a call that the program does not decide: whether malloc
\* succeeds, the draws of random(), the bytes read past the end of a buffer
Input(allocOk, rndForce, rndDelay, garbage) ==
  [allocOk |-> allocOk, rndForce |-> rndForce, rndDelay |-> rndDelay,
   garbage |-> garbage]

\* the number of plugin objects on the heap that no layer points to
Leaked(e) ==
  Cardinality((DOMAIN e.plugins) \
              { e.pluginLayers[j].pPlugin : j \in 0..e.indexLayerStack })

\* the counters of a layer that was just created
NoFires == [count |-> 0, auto |-> 0, last |-> 0]

\* the counters f after the entry ev of a log: a new layer starts from NoFires,
\* N records the count it gave and restarts the tally of automatic triggers,
\* an automatic trigger adds one to the tally, T and an automatic trigger
\* record their time
CountEvent(f, ev) ==
  IF ev.ev = "new"
    THEN [j \in (DOMAIN f) \cup {ev.i} |-> IF j = ev.i THEN NoFires ELSE f[j]]
  ELSE IF ev.ev = "N" THEN [f EXCEPT ![ev.i].count = ev.v, ![ev.i].auto = 0]
  ELSE IF ev.ev = "auto" THEN [f EXCEPT ![ev.i].auto = @ + 1, ![ev.i].last = ev.v]
  ELSE IF ev.ev = "T" THEN [f EXCEPT ![ev.i].last = ev.v]
  ELSE f

RECURSIVE CountEvents(_, _, _)
\* the counters f after the entries of the log 'events' from entry k on
CountEvents(f, events, k) ==
  IF k > Len(events) THEN f
  ELSE CountEvents(CountEvent(f, events[k]), events, k + 1)

\* the counters of the layers that are on the stack after a call that left e
Counts(e) == Live(CountEvents(fires, e.events, 1), e.indexLayerStack)

\* the state after execCmdStr(cmdstr) that did r
Executed(r, cmdstr, inp) ==
  /\ Leaked(r.e) <= MaxLeaked
  /\ Becomes(r.e)
  /\ fires' = Counts(r.e)
  /\ call' = Called("execCmdStr", cmdstr, 0, inp.allocOk, r.status, r.done, FALSE, r.e,
                    IF r.done > 0 /\ \E k \in 1..r.done : cmdstr[k].c = "P"
                      THEN "P" ELSE ClearedSince)

\* execCmdStr(cmdstr)
ExecCmdStr(cmdstr, inp) == Executed(execCmdStr(Eng, cmdstr, inp), cmdstr, inp)

\* the state after clearStack() that left e
Cleared(e) ==
  /\ Leaked(e) <= MaxLeaked
  /\ Becomes(e)
  /\ fires' = Counts(e)
  /\ call' = Called("clearStack", << >>, 0, TRUE, Status_Success, 0, FALSE, e,
                    "clearStack")

\* clearStack()
ClearStack == Cleared(clearStack(Eng))

\* the state after triggerForce(force) that left e
Forced(e, force) ==
  /\ Becomes(e)
  /\ fires' = Counts(e)
  /\ call' = Called("triggerForce", << >>, force, TRUE, Status_Success, 0, FALSE, e,
                    ClearedSince)

\* triggerForce(force)
TriggerForce(force) == Forced(triggerForce(Eng, force), force)

\* the state after updateEffects() that did r
Updated(r) ==
  /\ Becomes(r.e)
  /\ fires' = Counts(r.e)
  /\ call' = Called("updateEffects", << >>, 0, TRUE, Status_Success, 0, r.doshow, r.e,
                    ClearedSince)

\* updateEffects()
UpdateEffects(inp) == Updated(updateEffects(Eng, inp))

\* the millisecond clock advances by d and wraps as a uint32_t does
Advance(d) ==
  /\ Becomes([Eng EXCEPT !.msecs = ToUint32(msecs + d)])
  /\ UNCHANGED << call, fires >>

\* the millisecond clock advances by d
Tick(d) ==
  /\ msecs + d <= MaxClock
  /\ Becomes([Eng EXCEPT !.msecs = msecs + d])
  /\ UNCHANGED << call, fires >>

---------------------------------------------------------------------------
(* Command tokens and inputs *)

Tok(c, a) == [c |-> c, a |-> a]

RECURSIVE StringsOf(_, _)
\* the strings of exactly n tokens of the set toks
StringsOf(toks, n) ==
  IF n = 0 THEN { << >> }
  ELSE { Append(s, t) : s \in StringsOf(toks, n - 1), t \in toks }

\* the strings of one token of the set toks
Singles(toks) == { << t >> : t \in toks }

\* malloc can fail only in a call that adds a layer
Inputs(cmdstr) ==
  { Input(ok, 0, 0, Black) :
      ok \in IF \E k \in 1..Len(cmdstr) : cmdstr[k].c = "E" THEN BOOLEAN ELSE {TRUE} }

---------------------------------------------------------------------------
(* Spec: a host that builds and clears the stacks.  E0 adds a redraw       *)
(* plugin, E100 a predraw plugin, E3 and E name no plugin.                 *)

StackTokens ==
  { Tok("E", << 0 >>), Tok("E", << 1, 0, 0 >>), Tok("E", << 3 >>), Tok("E", << >>),
    Tok("P", << >>), Tok("G", << >>), Tok("H", << 1, 2, 0 >>) }

Init ==
  Constructed(NumPixels, TRUE, MaxLayers, MaxTracks, ZeroPixels(NumPixels), 0, 0, 0)

Next ==
  \/ \E cmdstr \in Singles(StackTokens) : \E inp \in Inputs(cmdstr) :
       ExecCmdStr(cmdstr, inp)
  \/ ClearStack

Spec == Init /\ [][Next]_vars

---------------------------------------------------------------------------
(* SpecCmd: a host that sends command strings of several tokens, and,      *)
(* while there is no track, one token of every letter.                     *)

\* capacity of the layer stack and of the track stack in SpecCmd and SpecRun
RunLayers == 2
RunTracks == 1

\* one token of every letter that needs a track, and letters that are no command
LetterTokens ==
  { Tok("J", << 5, 0 >>), Tok("K", << 5, 0 >>), Tok("U", << >>), Tok("V", << 0 >>),
    Tok("H", << 1, 8, 0 >>), Tok("W", << 5, 0 >>), Tok("B", << 5, 0 >>),
    Tok("C", << 5, 0 >>), Tok("D", << 1, 0 >>), Tok("Q", << 7 >>), Tok("I", << 1 >>),
    Tok("A", << 0 >>), Tok("F", << >>), Tok("N", << 3 >>), Tok("O", << 2 >>),
    Tok("T", << 5 >>), Tok("G", << >>), Tok("L", << >>), Tok("Z", << 1 >>),
    Tok("?", << >>) }

\* the tokens of the command strings
StringTokens ==
  { Tok("E", << 0 >>), Tok("E", << 1, 0, 0 >>), Tok("Y", << 2 >>), Tok("P", << >>) }

\* the command strings the host sends in the current state
CmdStrings ==
  UNION { StringsOf(StringTokens, n) : n \in 0..MaxTokens } \cup
  (IF indexTrackStack < 0 THEN Singles(LetterTokens) ELSE {})

InitCmd ==
  Constructed(NumPixels, TRUE, RunLayers, RunTracks, ZeroPixels(NumPixels), 0, 0, 0)

NextCmd ==
  \E cmdstr \in CmdStrings : \E inp \in Inputs(cmdstr) : ExecCmdStr(cmdstr, inp)

SpecCmd == InitCmd /\ [][NextCmd]_vars

---------------------------------------------------------------------------
(* SpecRun: a host that builds a small stack on a staged segment, triggers *)
(* it from outside, lets the clock run, updates and clears.                *)

RunTokens ==
  { Tok("E", << 0 >>), Tok("E", << 1, 0, 0 >>), Tok("P", << >>), Tok("G", << >>),
    Tok("I", << >>), Tok("Y", << 2 >>) }

\* the forces the host triggers with
Forces == { MAX_FORCE_VALUE \div 2 }

InitRun ==
  Constructed(NumPixels, TRUE, RunLayers, RunTracks, ZeroPixels(NumPixels), 0, 0, 0)

NextRun ==
  \/ \E cmdstr \in Singles(RunTokens) : \E inp \in Inputs(cmdstr) :
       ExecCmdStr(cmdstr, inp)
  \/ ClearStack
  \/ \E force \in Forces : TriggerForce(force)
  \/ UpdateEffects(Input(TRUE, 0, 0, Black))
  \/ Tick(1)

SpecRun == InitRun /\ [][NextRun]_vars

---------------------------------------------------------------------------
(* Properties of the stacks                                                 *)

\* the variables of the engine, the heap and the clock
engine ==
  << numPixels, goUpwards, maxPluginLayers, maxPluginTracks,
     pluginLayers, indexLayerStack, indexTrackEnable,
     pluginTracks, indexTrackStack,
     timePrevUpdate, curForce, delayOffset, segOffset, segCount,
     externPropMode, externDegreeHue, externPcentWhite, externPcentCount,
     pDrawPixels, displayPixels, plugins, buffers, msecs >>

\* C1: after any sequence of execCmdStr, clearStack, triggerForce and
\* updateEffects calls, -1 <= indexTrackEnable <= indexTrackStack <=
\* maxPluginTracks-1 and -1 <= indexLayerStack <= maxPluginLayers-1
C1_IndexBounds ==
  /\ -1 <= indexTrackEnable
  /\ indexTrackEnable <= indexTrackStack
  /\ indexTrackStack <= maxPluginTracks - 1
  /\ -1 <= indexLayerStack
  /\ indexLayerStack <= maxPluginLayers - 1

\* both stacks are full and enabled, and one more E has just been refused
C1_FullStacks ==
  /\ indexLayerStack = maxPluginLayers - 1
  /\ indexTrackStack = maxPluginTracks - 1
  /\ indexTrackEnable = indexTrackStack
  /\ call.op = "execCmdStr"
  /\ call.status = Status_Error_Memory

\* the layers whose track field is t
LayersOf(t) == { l \in 0..indexLayerStack : pluginLayers[l].track = t }

\* the layer holds a redraw plugin
RedrawLayer(l) == gettype(plugins[pluginLayers[l].pPlugin]) % 2 = 1

\* C2: in every reachable state, the layers of each track t of the track
\* stack form one contiguous span of the layer stack that starts at
\* pluginTracks[t].layer; the first layer of the span is a redraw plugin and
\* all the others are predraw plugins; every layer's track field is the track
\* whose span contains it
C2_TrackSpans ==
  /\ \A t \in 0..indexTrackStack :
       LET first == pluginTracks[t].layer IN
       /\ first \in 0..indexLayerStack
       /\ \E last \in first..indexLayerStack : LayersOf(t) = first..last
       /\ \A l \in LayersOf(t) : RedrawLayer(l) <=> (l = first)
  /\ \A l \in 0..indexLayerStack : pluginLayers[l].track \in 0..indexTrackStack

\* two tracks, the first with a predraw layer on top of its redraw layer
C2_TwoSpans ==
  /\ indexTrackStack = 1
  /\ indexLayerStack = 2
  /\ LayersOf(0) = {0, 1}
  /\ LayersOf(1) = {2}
  /\ ~RedrawLayer(1)

\* the call c is one E command whose argument is a plugin id, so it calls
\* NewPluginLayer
IsAddLayer(c) ==
  /\ c.op = "execCmdStr"
  /\ Len(c.cmdstr) = 1
  /\ c.cmdstr[1].c = "E"
  /\ GetNumValue(c.cmdstr[1].a, MAX_PLUGIN_VALUE) >= 0

\* the plugin id of the E command of the call c
PluginOf(c) == atoi(c.cmdstr[1].a)

\* the factory is reached (the layer stack is not full) and has a plugin for id
FactoryMakes(id) ==
  /\ indexLayerStack + 1 < maxPluginLayers
  /\ id \in CorePlugins \cup AdvPlugins

\* C3: a failing add_layer (layer stack full, track stack full for a redraw
\* plugin, predraw with no track, factory returns none, redraw buffer
\* allocation fails) is fully rolled back: the three stack indices and the
\* draw properties of every existing track are as before the call, and the
\* plugin instance obtained from the factory (if any) has been destroyed
C3_FailureRolledBack ==
  [][ (IsAddLayer(call') /\ call'.status # Status_Success) =>
        /\ indexLayerStack' = indexLayerStack
        /\ indexTrackStack' = indexTrackStack
        /\ indexTrackEnable' = indexTrackEnable
        /\ \A t \in 0..indexTrackStack : pluginTracks'[t].draw = pluginTracks[t].draw
        /\ plugins' = plugins
        /\ Len(call'.deleted) = (IF FactoryMakes(PluginOf(call')) THEN 1 ELSE 0)
    ]_vars

\* malloc of the redraw buffer has just failed for a second track: the pushed
\* layer and track were popped and the plugin deleted
C3_AllocFailed ==
  /\ IsAddLayer(call)
  /\ ~call.alloc
  /\ call.status = Status_Error_Memory
  /\ Len(call.deleted) = 1
  /\ indexTrackStack = 0
  /\ indexLayerStack = 0

\* C4: add_layer returns MemoryError when the layer stack is full, when the
\* plugin is a redraw and the track stack is full, or when the redraw buffer
\* allocation fails; BadCmd when the plugin is a predraw and no track exists;
\* BadVal when the factory returns no plugin for the id; and Success
\* otherwise, in which case exactly one layer is pushed and exactly one track
\* is pushed iff the plugin is a redraw.  (The cases are tested in the order:
\* layer stack full, factory, track stack, allocation.)
C4_AddLayerStatus ==
  [][ IsAddLayer(call') =>
        LET id     == PluginOf(call')
            redraw == id \in CorePlugins
            expect ==
              IF indexLayerStack + 1 >= maxPluginLayers THEN Status_Error_Memory
              ELSE IF id \notin CorePlugins \cup AdvPlugins THEN Status_Error_BadVal
              ELSE IF ~redraw /\ indexTrackStack < 0 THEN Status_Error_BadCmd
              ELSE IF redraw /\ indexTrackStack + 1 >= maxPluginTracks
                THEN Status_Error_Memory
              ELSE IF redraw /\ ~call'.alloc THEN Status_Error_Memory
              ELSE Status_Success
        IN  /\ call'.status = expect
            /\ expect = Status_Success =>
                 /\ indexLayerStack' = indexLayerStack + 1
                 /\ indexTrackStack' = indexTrackStack + (IF redraw THEN 1 ELSE 0)
    ]_vars

\* a redraw plugin has just been added as the second track
C4_TrackPushed ==
  /\ IsAddLayer(call)
  /\ call.status = Status_Success
  /\ PluginOf(call) \in CorePlugins
  /\ indexTrackStack = 1
  /\ pluginTracks[1].layer = indexLayerStack

---------------------------------------------------------------------------
(* Properties of the command interpreter                                    *)

\* the inputs of the call c
InputOf(c) == Input(c.alloc, 0, 0, Black)

RECURSIVE TokenRuns(_, _, _, _)
\* what each of the tokens 1..k of cmdstr does when they are executed from e
\* one after the other, whatever their statuses
TokenRuns(e, cmdstr, k, inp) ==
  IF k = 0 THEN << >>
  ELSE LET rs   == TokenRuns(e, cmdstr, k - 1, inp)
           from == IF k = 1 THEN e ELSE rs[k - 1].e
           seg  == IF k = 1 THEN -1 ELSE rs[k - 1].segindex
       IN  Append(rs, ExecToken(from, cmdstr[k], seg, inp))

\* the first of the results rs whose status is not Success, or the last one
FirstFailure(rs) ==
  LET failing == { k \in 1..Len(rs) : rs[k].status # Status_Success }
  IN  IF failing = {} THEN Len(rs)
      ELSE CHOOSE k \in failing : \A j \in failing : k <= j

\* C5: execCmdStr executes the tokens of a command string left to right and
\* stops at the first token whose status is not Success: it returns that
\* status, no later token has any effect, and the mutations made by the
\* earlier tokens are kept
C5_StopsAtFirstFailure ==
  [][ (call'.op = "execCmdStr" /\ call'.cmdstr # << >>) =>
        \E rs \in { TokenRuns(Eng, call'.cmdstr, Len(call'.cmdstr), InputOf(call')) } :
          \E f \in { FirstFailure(rs) } :
            /\ call'.done = f
            /\ call'.status = rs[f].status
            /\ Becomes(rs[f].e)
    ]_vars

\* a string of three tokens stopped at its second: the segment count set by
\* the first token is kept, the third token added no layer
C5_StoppedInTheMiddle ==
  /\ call.op = "execCmdStr"
  /\ Len(call.cmdstr) = 3
  /\ call.done = 2
  /\ call.status = Status_Error_BadCmd
  /\ call.cmdstr[1] = Tok("Y", << 2 >>)
  /\ call.cmdstr[3] = Tok("E", << 0 >>)
  /\ segCount = 2
  /\ indexLayerStack = -1

\* the letters that are executed without a track
NoTrackLetters == { "X", "Y", "E", "P" }

\* C6: when no track exists (indexTrackStack < 0), every command other than
\* X, Y, E and P (J, K, U, V, H, W, B, C, D, Q, I, A, F, N, O, T, G and any
\* unknown letter) returns BadCmd and changes no engine state
C6_NoTrackBadCmd ==
  [][ (/\ call'.op = "execCmdStr"
       /\ call'.cmdstr # << >>
       /\ indexTrackStack < 0
       /\ call'.cmdstr[1].c \notin NoTrackLetters) =>
        /\ call'.status = Status_Error_BadCmd
        /\ call'.done = 1
        /\ UNCHANGED engine
    ]_vars

\* H180 has just been refused on an engine without a track
C6_HueRefused ==
  /\ call.op = "execCmdStr"
  /\ call.cmdstr = << Tok("H", << 1, 8, 0 >>) >>
  /\ call.status = Status_Error_BadCmd
  /\ indexTrackStack < 0

---------------------------------------------------------------------------
(* Properties of clear                                                      *)

\* the last token that the last call executed was P
AfterP ==
  /\ call.op = "execCmdStr"
  /\ call.done >= 1
  /\ call.cmdstr[call.done].c = "P"

\* C7: after the P command, from any reachable state, indexLayerStack,
\* indexTrackStack and indexTrackEnable are all -1, every byte of the display
\* buffer is zero, and the segment staging is the full strip (segOffset = 0,
\* segCount = numPixels)
C7_AfterP ==
  AfterP =>
    /\ indexLayerStack = -1
    /\ indexTrackStack = -1
    /\ indexTrackEnable = -1
    /\ DOMAIN displayPixels = 0..(numPixels - 1)
    /\ \A i \in DOMAIN displayPixels : displayPixels[i] = Black
    /\ segOffset = 0
    /\ segCount = numPixels

\* P has just cleared a stack that held a track, after the clock had advanced
C7_ClearedATrack ==
  /\ AfterP
  /\ call.freed # << >>
  /\ msecs > 0

\* the call c is a clear: clearStack() or the command string "P"
IsClear(c) ==
  \/ c.op = "clearStack"
  \/ c.op = "execCmdStr" /\ c.cmdstr = << Tok("P", << >>) >>

\* the plugin objects of the layer stack, from the top layer down
PluginsTopDown ==
  [k \in 1..(indexLayerStack + 1) |-> pluginLayers[indexLayerStack + 1 - k].pPlugin]

\* C8: clear destroys every layer: after clearStack every plugin instance
\* that was on the layer stack has been destroyed exactly once, in reverse
\* order of creation, and every track's redraw buffer has been freed exactly
\* once
C8_ClearDestroysAll ==
  [][ IsClear(call') =>
        /\ call'.deleted = PluginsTopDown
        /\ Len(call'.freed) = indexTrackStack + 1
        /\ { call'.freed[k] : k \in 1..Len(call'.freed) } =
             { pluginTracks[t].pRedrawBuff : t \in 0..indexTrackStack }
    ]_vars

\* the command string consists of two or more P
AllP(cmdstr) ==
  /\ Len(cmdstr) >= 2
  /\ \A k \in 1..Len(cmdstr) : cmdstr[k].c = "P"

\* C9: clear is idempotent: from any reachable state, executing P two or
\* more times in a row leaves the engine in the same state as executing P
\* once
C9_ClearIdempotent ==
  [][ (call'.op = "execCmdStr" /\ AllP(call'.cmdstr)) =>
        \E once \in { execCmdStr(Eng, << Tok("P", << >>) >>, InputOf(call')).e } :
          Becomes(once)
    ]_vars

\* "P P" or "P P P" has just cleared a stack that held a track
C9_ClearedTwice ==
  /\ call.op = "execCmdStr"
  /\ AllP(call.cmdstr)
  /\ call.done = Len(call.cmdstr)
  /\ call.freed # << >>

\* C10: the first updateEffects call after a clear returns true, whether the
\* clear was done by the P command or by a direct call of clearStack(), and
\* whatever the time of the previous update was
C10_UpdateAfterClear ==
  (call.op = "updateEffects" /\ call.cleared # "none") => call.doshow

---------------------------------------------------------------------------
(* SpecAuto: a host that loads one pattern with an automatic trigger on a   *)
(* new engine and then runs its loop: updateEffects at least once a second. *)

\* seconds of the clock that are explored
AutoSeconds == 30

\* the arguments of N in the patterns: 1, 3, 32768 and 65535
AutoCounts == { << 1 >>, << 3 >>, << 3, 2, 7, 6, 8 >>, << 6, 5, 5, 3, 5 >> }

\* the arguments of T in the patterns
AutoRanges == { 0, 5 }

\* the pattern E0 O1 N<count> T<range> G
AutoPattern(count, range) ==
  << Tok("E", << 0 >>), Tok("O", << 1 >>), Tok("N", count), Tok("T", << range >>),
     Tok("G", << >>) >>

\* the draws of random() for a delay
Draws == 0..5

InitAuto ==
  Constructed(NumPixels, TRUE, RunLayers, RunTracks, ZeroPixels(NumPixels), 0, 0, 0)

NextAuto ==
  \/ /\ indexLayerStack = -1
     /\ \E count \in AutoCounts : \E range \in AutoRanges : \E rnd \in Draws :
          ExecCmdStr(AutoPattern(count, range), Input(TRUE, 0, rnd, Black))
  \/ \E rnd \in Draws : UpdateEffects(Input(TRUE, 0, rnd, Black))
  \/ /\ indexLayerStack >= 0
     /\ timePrevUpdate = msecs
     /\ msecs + 1000 <= 1000 * AutoSeconds
     /\ Advance(1000)

SpecAuto == InitAuto /\ [][NextAuto]_vars

---------------------------------------------------------------------------
(* Properties of the automatic trigger                                      *)

\* C11: for every k in 1..MAX_WORD_VALUE, a layer whose count was set by N<k>
\* is fired by CheckAutoTrigger at most k times, over any sequence of
\* updateEffects calls: its counter holds the triggers that remain, k less
\* the automatic triggers made so far, and stops them at 0
C11_AtMostCount ==
  \A l \in 0..indexLayerStack :
    fires[l].count \in 1..MAX_WORD_VALUE =>
      /\ fires[l].auto <= fires[l].count
      /\ pluginLayers[l].trigCount = fires[l].count - fires[l].auto

\* the layer l was made by the pattern E0 O1 N3 T5 G
IsCount3(l) ==
  /\ fires[l].count = 3
  /\ pluginLayers[l].trigDelayMin = 1
  /\ pluginLayers[l].trigDelayRange = 5

\* the triggers of the layer l in the log of the call c
TriggersIn(c, l) ==
  { k \in 1..Len(c.events) : c.events[k].ev = "trigger" /\ c.events[k].i = l }

\* C12: after E0 O1 N3 T5 G, with updateEffects called repeatedly while the
\* clock advances over 30 seconds and no rollover, the layer is fired exactly
\* 4 times in total, once by T and 3 times by the automatic trigger, and then
\* never again; at the end trigCount = 0 and trigTimeMsecs is non-zero and
\* later than the time of the last fire
C12_FourFires ==
  /\ [][ (call'.op = "execCmdStr" /\ call'.cmdstr = AutoPattern(<< 3 >>, 5)) =>
           Cardinality(TriggersIn(call', 0)) = 1 ]_vars
  /\ [][ (call'.op = "updateEffects" /\ msecs' = msecs /\ indexLayerStack >= 0 /\
          IsCount3(0)) =>
           Cardinality(TriggersIn(call', 0)) = fires'[0].auto - fires[0].auto ]_vars
  /\ [](\A l \in 0..indexLayerStack : IsCount3(l) =>
          /\ fires[l].auto <= 3
          /\ (msecs = 1000 * AutoSeconds /\ timePrevUpdate = msecs) =>
               /\ fires[l].auto = 3
               /\ pluginLayers[l].trigCount = 0
               /\ pluginLayers[l].trigTimeMsecs # 0
               /\ pluginLayers[l].trigTimeMsecs > fires[l].last)

\* the loop has run for 30 seconds after E0 O1 N3 T5 G and the layer has had
\* its three automatic triggers
C12_ThirtySeconds ==
  /\ indexLayerStack = 0
  /\ IsCount3(0)
  /\ msecs = 1000 * AutoSeconds
  /\ timePrevUpdate = msecs
  /\ fires[0].auto = 3
  /\ call.op = "updateEffects"

---------------------------------------------------------------------------
(* SpecRoll: a host whose clock is about to wrap.  It builds a stack with   *)
(* automatic triggers a few seconds before the wrap and updates across it.  *)

\* seconds before the wrap of the clock at which the host starts
RollBefore == 2
\* seconds after the wrap of the clock that are explored
RollAfter == 3
\* automatic triggers of one layer that are explored
RollFires == 2

RollTokens ==
  { Tok("E", << 0 >>), Tok("E", << 1, 0, 0 >>), Tok("T", << 1 >>), Tok("G", << >>) }

\* the draws of random() for a delay of T1: one or two seconds
RollDraws == 0..1

InitRoll ==
  Constructed(NumPixels, TRUE, RunLayers, RunTracks, ZeroPixels(NumPixels), 0, 0, 0)

NextRoll ==
  \/ /\ msecs = 0 /\ timePrevUpdate = 0 /\ indexLayerStack = -1
     /\ Advance(TimeWrap - 1000 * RollBefore)
  \/ \E cmdstr \in Singles(RollTokens) : \E rnd \in RollDraws :
       ExecCmdStr(cmdstr, Input(TRUE, 0, rnd, Black))
  \/ /\ \A l \in 0..indexLayerStack : fires[l].auto < RollFires
     /\ \E rnd \in RollDraws : UpdateEffects(Input(TRUE, 0, rnd, Black))
  \/ /\ (msecs >= TimeWrap - 1000 * RollBefore) \/ (msecs + 1000 <= 1000 * RollAfter)
     /\ Advance(1000)

SpecRoll == InitRoll /\ [][NextRoll]_vars

\* C13: when updateEffects sees the clock rolled over, every armed layer's
\* trigTimeMsecs is rebased so that its pending delay is preserved: the
\* rollover tick does not fire a layer whose delay had not elapsed (its
\* trigger time lies ahead of the new time), no layer is fired twice, and
\* after the call every armed layer's trigTimeMsecs and every enabled track's
\* msTimeRedraw are not before the new update time
C13_RolloverKeepsDelay ==
  [][ (call'.op = "updateEffects" /\ msecs' = msecs /\ timePrevUpdate > msecs) =>
        /\ \A l \in 0..indexLayerStack :
             /\ (pluginLayers[l].trigTimeMsecs > msecs /\
                 pluginLayers[l].trigTimeMsecs < timePrevUpdate) =>
                  TriggersIn(call', l) = {}
             /\ Cardinality(TriggersIn(call', l)) <= 1
             /\ pluginLayers[l].trigTimeMsecs > 0 =>
                  pluginLayers'[l].trigTimeMsecs >= timePrevUpdate'
        /\ \A t \in 0..indexTrackEnable :
             pluginTracks'[t].msTimeRedraw >= timePrevUpdate'
    ]_vars

---------------------------------------------------------------------------
(* SpecSched: a host that builds a stack of drawing and predraw effects,    *)
(* triggers them by command, with and without a timer, enables the tracks   *)
(* and updates while the clock runs.                                        *)

\* seconds of the clock that are explored in SpecSched
SchedSeconds == 2

\* T0 sets a timer of exactly one second
SchedTokens ==
  { Tok("E", << 0 >>), Tok("E", << 1, 0, 0 >>), Tok("T", << >>), Tok("T", << 0 >>),
    Tok("G", << >>) }

InitSched ==
  Constructed(NumPixels, TRUE, MaxLayers, MaxTracks, ZeroPixels(NumPixels), 0, 0, 0)

NextSched ==
  \/ \E cmdstr \in Singles(SchedTokens) : ExecCmdStr(cmdstr, Input(TRUE, 0, 0, Black))
  \/ UpdateEffects(Input(TRUE, 0, 0, Black))
  \/ /\ msecs + 1000 <= 1000 * SchedSeconds
     /\ Advance(1000)

SpecSched == InitSched /\ [][NextSched]_vars

---------------------------------------------------------------------------
(* Properties of the scheduler                                              *)

\* the entries of the log of the last call whose event is one of evs
EntriesOf(evs) == { k \in 1..Len(call.events) : call.events[k].ev \in evs }

\* the layer l has a nextstep in the log of the last call
Stepped(l) == \E k \in EntriesOf({"nextstep"}) : call.events[k].i = l

\* C14: within one updateEffects call every automatic trigger happens before
\* any nextstep; for each stepped track the nextstep of every active predraw
\* layer of the track runs, in increasing layer index, before the nextstep of
\* the track's redraw layer; and the compositor merges the tracks in
\* increasing track index after all the steps
C14_TickOrder ==
  call.op = "updateEffects" =>
    /\ \A a \in EntriesOf({"trigger", "auto"}) : \A b \in EntriesOf({"nextstep", "merge"}) :
         a < b
    /\ \A a \in EntriesOf({"nextstep"}) : \A b \in EntriesOf({"merge"}) : a < b
    /\ \A a, b \in EntriesOf({"merge"}) : a < b => call.events[a].i < call.events[b].i
    /\ \A a, b \in EntriesOf({"nextstep"}) :
         a < b =>
           \/ pluginLayers[call.events[a].i].track < pluginLayers[call.events[b].i].track
           \/ /\ pluginLayers[call.events[a].i].track = pluginLayers[call.events[b].i].track
              /\ ~RedrawLayer(call.events[a].i)
              /\ RedrawLayer(call.events[b].i) \/ call.events[a].i < call.events[b].i
    /\ \A t \in 0..indexTrackStack :
         \A l \in LayersOf(t) :
           ~RedrawLayer(l) =>
             (Stepped(l) <=> (pluginLayers[l].trigActive /\ Stepped(pluginTracks[t].layer)))

\* an updateEffects that fired a layer by its timer, stepped a predraw layer
\* and the drawing layer of its track, and merged two tracks
C14_FullTick ==
  /\ call.op = "updateEffects"
  /\ EntriesOf({"auto"}) # {}
  /\ \E l \in 0..indexLayerStack : ~RedrawLayer(l) /\ Stepped(l)
  /\ Cardinality(EntriesOf({"merge"})) = 2

\* the track of an entry of the log: the entry's track for a merge, the track
\* of the entry's layer otherwise
TrackOfEntry(k) ==
  IF call.events[k].ev = "merge" THEN call.events[k].i
  ELSE pluginLayers[call.events[k].i].track

\* C15: a track with index above indexTrackEnable is quiescent until G: no
\* updateEffects call invokes nextstep on any of its layers, fires any of its
\* layers or merges its redraw buffer into the display buffer; after G every
\* track in 0..indexTrackStack is enabled and is merged by every updateEffects
\* that shows
C15_Quiescent ==
  /\ call.op = "updateEffects" =>
       /\ \A k \in 1..Len(call.events) : TrackOfEntry(k) <= indexTrackEnable
       /\ call.doshow =>
            \A t \in 0..indexTrackEnable :
              \E k \in EntriesOf({"merge"}) : call.events[k].i = t
  /\ (call.op = "execCmdStr" /\ call.cmdstr = << Tok("G", << >>) >> /\
      call.status = Status_Success) =>
       indexTrackEnable = indexTrackStack

\* an updateEffects that shows while the second track waits for G, its layer
\* triggered and its timer expired
C15_WaitingTrack ==
  /\ call.op = "updateEffects"
  /\ call.doshow
  /\ indexTrackEnable = 0
  /\ indexTrackStack = 1
  /\ pluginLayers[pluginTracks[1].layer].trigActive
  /\ pluginLayers[pluginTracks[1].layer].trigTimeMsecs > 0
  /\ pluginLayers[pluginTracks[1].layer].trigTimeMsecs <= timePrevUpdate

---------------------------------------------------------------------------
(* SpecBlend: a host with a strip of 10 pixels that loads a pattern of two  *)
(* windowed tracks, or builds one command by command, and updates.          *)

\* pixels of the strip in SpecBlend
StripPixels == 10

\* the pattern E0 H0 J0 K50 T E0 H120 J50 K<len> T G
Windowed(len) ==
  << Tok("E", << 0 >>), Tok("H", << 0 >>), Tok("J", << 0 >>), Tok("K", << 5, 0 >>),
     Tok("T", << >>),
     Tok("E", << 0 >>), Tok("H", << 1, 2, 0 >>), Tok("J", << 5, 0 >>), Tok("K", len),
     Tok("T", << >>), Tok("G", << >>) >>

\* the pattern E0 H0 J0 K50 T E0 H120 J50 K<len> V<v> T G
WindowedV(len, v) ==
  SubSeq(Windowed(len), 1, 9) \o << Tok("V", << v >>) >> \o SubSeq(Windowed(len), 10, 11)

BlendPatterns ==
  { Windowed(<< 5, 0 >>), WindowedV(<< 5, 0 >>, 0), WindowedV(<< 7, 0 >>, 0),
    WindowedV(<< 7, 0 >>, 1) }

BlendTokens ==
  { Tok("E", << 0 >>), Tok("H", << 1, 2, 0 >>), Tok("J", << 5, 0 >>), Tok("K", << 5, 0 >>),
    Tok("V", << 1 >>), Tok("U", << >>), Tok("T", << >>), Tok("G", << >>) }

InitBlend ==
  Constructed(StripPixels, TRUE, RunLayers, MaxTracks, ZeroPixels(StripPixels), 0, 0, 0)

NextBlend ==
  \/ /\ indexLayerStack = -1
     /\ \E cmdstr \in BlendPatterns : ExecCmdStr(cmdstr, Input(TRUE, 0, 0, Black))
  \/ \E cmdstr \in Singles(BlendTokens) : ExecCmdStr(cmdstr, Input(TRUE, 0, 0, Black))
  \/ UpdateEffects(Input(TRUE, 0, 0, Black))

SpecBlend == InitBlend /\ [][NextBlend]_vars

\* the display pixel the merge of track t visits at its k-th step (k from 0):
\* upwards from the window's first pixel, downwards from its last one
DisplayAt(e, t, k) ==
  LET pTrack == e.pluginTracks[t]
      first  == (pTrack.segOffset + pTrack.draw.pixStart) % e.numPixels
      last   == (first + pTrack.draw.pixLen - 1) % e.numPixels
  IN  IF pTrack.draw.goUpwards
        THEN (first + k) % e.numPixels
        ELSE (last + e.numPixels - k) % e.numPixels

\* the steps at which the merge of track t visits display pixel p
StepsAt(e, t, p) ==
  { k \in 0..(e.pluginTracks[t].draw.pixLen - 1) : DisplayAt(e, t, k) = p }

\* the window of track t covers display pixel p
Covers(e, t, p) == StepsAt(e, t, p) # {}

\* the pixel of track t's buffer that is merged into display pixel p
SourceAt(e, t, p) ==
  LET k == CHOOSE k \in StepsAt(e, t, p) : TRUE
  IN  e.buffers[e.pluginTracks[t].pRedrawBuff]
               [(e.pluginTracks[t].draw.pixStart + k) % e.numPixels]

RECURSIVE Blended(_, _, _)

\* display pixel p after the tracks 0..t are merged in increasing track order
Blended(e, t, p) ==
  IF t < 0 THEN Black
  ELSE IF ~Covers(e, t, p) THEN Blended(e, t - 1, p)
  ELSE IF e.pluginTracks[t].draw.orPixelValues
    THEN [c \in 1..3 |-> BitOr(Blended(e, t - 1, p)[c], SourceAt(e, t, p)[c])]
  ELSE IF SourceAt(e, t, p) # Black THEN SourceAt(e, t, p)
  ELSE Blended(e, t - 1, p)

RECURSIVE OrOver(_, _, _, _)

\* byte c of the OR, over the tracks 0..t whose window covers display pixel p,
\* of the source pixels (zero where no window covers it)
OrOver(e, t, p, c) ==
  IF t < 0 THEN 0
  ELSE BitOr(OrOver(e, t - 1, p, c),
             IF Covers(e, t, p) THEN SourceAt(e, t, p)[c] ELSE 0)

\* C16: after an update that shows, every display pixel is the blend of the
\* enabled tracks' windows in increasing track order: a track whose
\* orPixelValues is true ORs its source pixel bytewise into the pixel (so with
\* only such tracks the pixel is the OR over the tracks that cover it), a track
\* whose orPixelValues is false replaces the pixel where its source pixel is
\* not black and leaves it alone where its source pixel is black
C16_Blend ==
  (call.op = "updateEffects" /\ call.doshow)
    => /\ \A p \in 0..(numPixels - 1) :
            displayPixels[p] = Blended(Eng, indexTrackEnable, p)
       /\ (\A t \in 0..indexTrackEnable : pluginTracks[t].draw.orPixelValues)
            => \A p \in 0..(numPixels - 1) : \A c \in 1..3 :
                 displayPixels[p][c] = OrOver(Eng, indexTrackEnable, p, c)

\* C16 witness: two enabled tracks that OR different colours into a pixel
\* both windows cover, and an overwriting case is not involved
C16_OrOverlap ==
  /\ call.op = "updateEffects"
  /\ call.doshow
  /\ indexTrackEnable = 1
  /\ pluginTracks[0].draw.orPixelValues
  /\ pluginTracks[1].draw.orPixelValues
  /\ \E p \in 0..(numPixels - 1) :
       /\ Covers(Eng, 0, p)
       /\ Covers(Eng, 1, p)
       /\ SourceAt(Eng, 0, p) = << 255, 0, 0 >>
       /\ SourceAt(Eng, 1, p) = << 0, 255, 0 >>
       /\ displayPixels[p] = << 255, 255, 0 >>

PureRed == << 255, 0, 0 >>
PureGreen == << 0, 255, 0 >>

\* C17: on a strip of 10 pixels the pattern E0 H0 J0 K50 T E0 H120 J50 K50 T G
\* followed by an update shows pixels 0..4 pure red and pixels 5..9 pure green
C17_RedGreenHalves ==
  [][(/\ indexLayerStack = -1
      /\ call'.op = "execCmdStr"
      /\ call'.cmdstr = Windowed(<< 5, 0 >>)
      /\ numPixels = 10)
       => updateEffects(Eng', Input(TRUE, 0, 0, Black)).e.displayPixels
            = [p \in 0..9 |-> IF p <= 4 THEN PureRed ELSE PureGreen]]_vars

\* in the display of e every pixel that the windows of tracks 0 and 1 both
\* cover holds exactly the colour c
OverlapHolds(e, c) ==
  \A p \in 0..(e.numPixels - 1) :
    (Covers(e, 0, p) /\ Covers(e, 1, p)) => e.displayPixels[p] = c

\* C18 as stated: with V0 and K70 on the second track of the windowed pattern,
\* after an update every pixel covered by both windows is pure green
C18_V0Overwrites ==
  [][(/\ indexLayerStack = -1
      /\ call'.op = "execCmdStr"
      /\ call'.cmdstr = WindowedV(<< 7, 0 >>, 0))
       => OverlapHolds(updateEffects(Eng', Input(TRUE, 0, 0, Black)).e, PureGreen)]_vars

\* C18: V1 on a track selects overwrite blending for it: with V1 and K70 on the
\* second track of the windowed pattern, the track's orPixelValues is false and
\* after an update every pixel covered by both windows is pure green, with no
\* bits of the first track's red
C18_V1Overwrites ==
  [][(/\ indexLayerStack = -1
      /\ call'.op = "execCmdStr"
      /\ call'.cmdstr = WindowedV(<< 7, 0 >>, 1))
       => /\ ~pluginTracks'[1].draw.orPixelValues
          /\ OverlapHolds(updateEffects(Eng', Input(TRUE, 0, 0, Black)).e, PureGreen)]_vars

\* C18 witness: the update after the pattern with V1 and K70: the second
\* window 4..9,0 overwrites the first window 0..4 at the pixels 0 and 4
C18_GreenOverRed ==
  /\ call.op = "updateEffects"
  /\ call.doshow
  /\ indexTrackEnable = 1
  /\ ~pluginTracks[1].draw.orPixelValues
  /\ pluginTracks[0].draw.pixLen = 5
  /\ pluginTracks[1].draw.pixStart = 4
  /\ pluginTracks[1].draw.pixLen = 7
  /\ Covers(Eng, 0, 4) /\ Covers(Eng, 1, 4)
  /\ Covers(Eng, 0, 0) /\ Covers(Eng, 1, 0)
  /\ SourceAt(Eng, 0, 4) = PureRed
  /\ displayPixels[0] = PureGreen
  /\ displayPixels[4] = PureGreen
  /\ displayPixels[3] = PureRed

---------------------------------------------------------------------------
(* SpecProp: a host that sets segments, adds effects, sets the colour and   *)
(* count properties by command and drives the external property control.   *)
(* The constructor leaves externDegreeHue (short), externPcentWhite and     *)
(* externPcentCount (byte) without a value: they start with any value.      *)

\* the state after a call of the external property control that left e
Propertied(op, e) ==
  /\ Becomes(e)
  /\ fires' = Counts(e)
  /\ call' = Called(op, << >>, 0, TRUE, Status_Success, 0, FALSE, e, ClearedSince)

\* setPropertyMode(enable)
SetPropertyMode(enable) == Propertied("setPropertyMode", setPropertyMode(Eng, enable))

\* setColorProperty(hue_degree, white_percent)
SetColorProperty(hue_degree, white_percent) ==
  Propertied("setColorProperty", setColorProperty(Eng, hue_degree, white_percent))

\* setCountProperty(pixcount_percent)
SetCountProperty(pixcount_percent) ==
  Propertied("setCountProperty", setCountProperty(Eng, pixcount_percent))

PropTokens ==
  { Tok("X", << 1 >>), Tok("Y", << 2 >>), Tok("Y", << >>), Tok("E", << 0 >>),
    Tok("C", << 1, 0, 0 >>), Tok("Q", << 7 >>),
    Tok("H", << 4, 0, 0 >>), Tok("W", << 2, 0, 0 >>), Tok("B", << 2, 0, 0 >>),
    Tok("P", << >>) }

InitProp ==
  \E extern \in { << 0, 0, 0 >>, << 400, 200, 200 >> } :
    Constructed(NumPixels, TRUE, RunLayers, RunTracks, ZeroPixels(NumPixels),
                extern[1], extern[2], extern[3])

NextProp ==
  \/ \E cmdstr \in Singles(PropTokens) : ExecCmdStr(cmdstr, Input(TRUE, 0, 0, Black))
  \/ \E enable \in BOOLEAN : SetPropertyMode(enable)
  \/ \E color \in { << 240, 50 >>, << 400, 200 >> } : SetColorProperty(color[1], color[2])
  \/ \E pixcount_percent \in {50, 200} : SetCountProperty(pixcount_percent)

SpecProp == InitProp /\ [][NextProp]_vars

\* C19: the pixel count of every track is between 1 and the track's own
\* segment length
C19_CountInSegment ==
  \A t \in 0..indexTrackStack :
    /\ 1 <= pluginTracks[t].draw.pixCount
    /\ pluginTracks[t].draw.pixCount <= pluginTracks[t].segCount

\* C20: whiteness and brightness of every track are percentages and its hue
\* is a degree of the colour wheel
C20_ColourInRange ==
  \A t \in 0..indexTrackStack :
    /\ pluginTracks[t].draw.pcentWhite \in 0..MAX_PERCENTAGE
    /\ pluginTracks[t].draw.pcentBright \in 0..MAX_PERCENTAGE
    /\ pluginTracks[t].draw.degreeHue \in 0..MAX_DEGREES_HUE

---------------------------------------------------------------------------
(* SpecExtern: a host that loads a pattern of one or two tracks with a      *)
(* predraw effect that writes draw properties, and drives the external      *)
(* property control, the external trigger and the updates.                  *)

\* the tokens of a track: E0 F335 I Q<bits> T
TrackTokens(bits) ==
  << Tok("E", << 0 >>), Tok("F", << 3, 3, 5 >>), Tok("I", << >>), Tok("Q", << bits >>),
     Tok("T", << >>) >>

\* the tokens of a predraw effect: E<plugin> F335 I T
PredrawTokens(plugin) ==
  << Tok("E", plugin), Tok("F", << 3, 3, 5 >>), Tok("I", << >>), Tok("T", << >>) >>

ExternPatterns ==
  { TrackTokens(b) \o PredrawTokens(w) \o << Tok("G", << >>) >> :
      b \in {1, 7}, w \in { << 1, 0, 0 >>, << 1, 0, 1 >>, << 1, 1, 1 >>, << 1, 2, 0 >> } }
  \cup
  { TrackTokens(b[1]) \o PredrawTokens(w) \o TrackTokens(b[2]) \o << Tok("G", << >>) >> :
      b \in { << 7, 0 >>, << 1, 6 >> }, w \in { << 1, 1, 1 >> } }

ExternTokens == { Tok("T", << >>), Tok("P", << >>) }

InitExtern ==
  \E extern \in { << 0, 0, 0 >>, << 400, 200, 200 >> } :
    Constructed(NumPixels, TRUE, MaxLayers, MaxTracks, ZeroPixels(NumPixels),
                extern[1], extern[2], extern[3])

NextExtern ==
  \/ /\ indexLayerStack = -1
     /\ \E cmdstr \in ExternPatterns : ExecCmdStr(cmdstr, Input(TRUE, 0, 0, Black))
  \/ \E cmdstr \in Singles(ExternTokens) : ExecCmdStr(cmdstr, Input(TRUE, 0, 0, Black))
  \/ \E enable \in BOOLEAN : SetPropertyMode(enable)
  \/ SetColorProperty(400, 200)
  \/ SetCountProperty(200)
  \/ TriggerForce(335)
  \/ UpdateEffects(Input(TRUE, 0, 0, Black))

SpecExtern == InitExtern /\ [][NextExtern]_vars

\* the step is a call that fires layers or steps tracks and loads no effect:
\* triggerForce, updateEffects or the command T
FiresOrSteps ==
  \/ call'.op = "triggerForce"
  \/ call'.op = "updateEffects"
  \/ call'.op = "execCmdStr" /\ call'.cmdstr = << Tok("T", << >>) >>

\* the plugin id of layer l
PluginAt(l) == plugins[pluginLayers[l].pPlugin].plugin

\* C21: in external property mode a call that fires predraw layers or steps
\* them leaves every property of a track whose bit is set in the track's
\* ctrlBits as it was: the hue with bit 1, the whiteness with bit 2, the pixel
\* count with bit 4
C21_Protected ==
  [][(externPropMode /\ FiresOrSteps)
       => \A t \in 0..indexTrackStack :
            /\ HasBit(pluginTracks[t].ctrlBits, ExtControlBit_DegreeHue)
                 => pluginTracks'[t].draw.degreeHue = pluginTracks[t].draw.degreeHue
            /\ HasBit(pluginTracks[t].ctrlBits, ExtControlBit_PcentWhite)
                 => pluginTracks'[t].draw.pcentWhite = pluginTracks[t].draw.pcentWhite
            /\ HasBit(pluginTracks[t].ctrlBits, ExtControlBit_PixCount)
                 => pluginTracks'[t].draw.pixCount = pluginTracks[t].draw.pixCount]_vars

\* C21 witness: in property mode an external trigger fired PNP_ColorModify on
\* a track that protects the hue only: the plugin wrote the whiteness, and the
\* hue it wrote was put back
C21_HueKept ==
  /\ call.op = "triggerForce"
  /\ externPropMode
  /\ indexLayerStack >= 1
  /\ PluginAt(1) = 111
  /\ pluginLayers[1].trigExtern
  /\ pluginTracks[0].ctrlBits = ExtControlBit_DegreeHue
  /\ pluginTracks[0].draw.pcentWhite = ForceTo(call.force, 0, MAX_PERCENTAGE)
  /\ pluginTracks[0].draw.pcentWhite > 0
  /\ pluginTracks[0].draw.degreeHue # ForceTo(call.force, 0, MAX_DEGREES_HUE)

\* C22: after every update made in property mode a track whose ctrlBits sets
\* a bit holds the external value of that property
C22_ExternOverrides ==
  (call.op = "updateEffects" /\ externPropMode)
    => \A t \in 0..indexTrackStack :
         /\ HasBit(pluginTracks[t].ctrlBits, ExtControlBit_DegreeHue)
              => pluginTracks[t].draw.degreeHue = externDegreeHue
         /\ HasBit(pluginTracks[t].ctrlBits, ExtControlBit_PcentWhite)
              => pluginTracks[t].draw.pcentWhite = externPcentWhite
         /\ HasBit(pluginTracks[t].ctrlBits, ExtControlBit_PixCount)
              => pluginTracks[t].draw.pixCount =
                   mapValue(externPcentCount, 0, MAX_PERCENTAGE, 1, pluginTracks[t].segCount)

\* the hue, the whiteness and the pixel count of a track
Props(pTrack) == << pTrack.draw.degreeHue, pTrack.draw.pcentWhite, pTrack.draw.pixCount >>

\* a predraw layer of track t was fired or stepped in the call that left e
PredrawActed(e, t) ==
  \E k \in 1..Len(e.events) :
    /\ e.events[k].ev \in {"trigger", "nextstep"}
    /\ e.pluginLayers[e.events[k].i].track = t
    /\ e.events[k].i # e.pluginTracks[t].layer

C24_OnlyWithBit ==
  [][/\ (call'.op = "setColorProperty" /\ externPropMode)
          => /\ externDegreeHue' \in 0..MAX_DEGREES_HUE
             /\ externPcentWhite' \in 0..MAX_PERCENTAGE
             /\ \A t \in 0..indexTrackStack :
                  /\ pluginTracks'[t].draw.degreeHue =
                       IF HasBit(pluginTracks[t].ctrlBits, ExtControlBit_DegreeHue)
                         THEN externDegreeHue' ELSE pluginTracks[t].draw.degreeHue
                  /\ pluginTracks'[t].draw.pcentWhite =
                       IF HasBit(pluginTracks[t].ctrlBits, ExtControlBit_PcentWhite)
                         THEN externPcentWhite' ELSE pluginTracks[t].draw.pcentWhite
                  /\ pluginTracks'[t].draw.pixCount = pluginTracks[t].draw.pixCount
                  /\ (pluginTracks[t].ctrlBits % 4 = 0) => pluginTracks'[t] = pluginTracks[t]
     /\ (call'.op = "setCountProperty" /\ externPropMode)
          => /\ externPcentCount' \in 0..MAX_PERCENTAGE
             /\ \A t \in 0..indexTrackStack :
                  /\ pluginTracks'[t].draw.pixCount =
                       IF HasBit(pluginTracks[t].ctrlBits, ExtControlBit_PixCount)
                         THEN mapValue(externPcentCount', 0, MAX_PERCENTAGE, 1,
                                       pluginTracks[t].segCount)
                         ELSE pluginTracks[t].draw.pixCount
                  /\ [pluginTracks'[t] EXCEPT !.draw.pixCount = pluginTracks[t].draw.pixCount]
                       = pluginTracks[t]]_vars

\* C24 witness: setColorProperty in property mode on two tracks, the first
\* with the hue bit only, the second with the white and count bits only
C24_TwoTracks ==
  /\ call.op = "setColorProperty"
  /\ externPropMode
  /\ indexTrackStack = 1
  /\ pluginTracks[0].ctrlBits = 1
  /\ pluginTracks[1].ctrlBits = 6
  /\ pluginTracks[0].draw.degreeHue = externDegreeHue
  /\ pluginTracks[0].draw.pcentWhite # externPcentWhite
  /\ pluginTracks[1].draw.degreeHue # externDegreeHue
  /\ pluginTracks[1].draw.pcentWhite = externPcentWhite

---------------------------------------------------------------------------
(* External force *)

\* the entries of a call's log that are calls of a plugin's trigger, in order
TriggerLog(events) ==
  LET IsTrigger(ev) == ev.ev = "trigger"
  IN  SelectSeq(events, IsTrigger)

---------------------------------------------------------------------------
(* Fired layers are stepped *)

\* the redraw layers of enabled tracks that have an entry 'ev' in the log of
\* the call c
RedrawsWith(c, ev) ==
  { l \in 0..indexLayerStack :
      /\ RedrawLayer(l)
      /\ pluginLayers[l].track <= indexTrackEnable
      /\ \E k \in 1..Len(c.events) : c.events[k].ev = ev /\ c.events[k].i = l }

\* the call c stepped the layer l and returned true
SteppedIn(c, l) ==
  /\ c.doshow
  /\ \E k \in 1..Len(c.events) : c.events[k].ev = "nextstep" /\ c.events[k].i = l

\* C26: when a call other than updateEffects fired the redraw layer of an
\* enabled track, the layer is trigActive and the updateEffects call that
\* follows steps that layer and returns true; when updateEffects itself fired
\* the layer by its timer, that same call steps it and returns true
C26_FiredIsStepped ==
  [][(call'.op = "updateEffects" /\ msecs' = msecs)
       => /\ (call.op # "updateEffects")
               => \A l \in RedrawsWith(call, "trigger") :
                    pluginLayers[l].trigActive /\ SteppedIn(call', l)
          /\ (call.op # "updateEffects" \/ call' # call)
               => \A l \in RedrawsWith(call', "auto") : SteppedIn(call', l)]_vars

---------------------------------------------------------------------------
(* Armed timers *)

\* the call c was an execCmdStr in which a T<n> command armed the timer of layer l
ArmedBy(c, l) ==
  /\ c.op = "execCmdStr"
  /\ \E k \in 1..Len(c.events) : c.events[k].ev = "T" /\ c.events[k].i = l
  /\ \A k \in 1..c.done : c.cmdstr[k].c = "T" => c.cmdstr[k].a # << >>

\* C27: a layer's trigTimeMsecs is 0 exactly while its timer is not armed: a
\* new layer has 0 unless the call that made it armed it, a T<n> command makes
\* it non-zero, and no other call (updateEffects with its re-arming and its
\* rebase at a rollover included) changes whether it is 0
C27_ZeroIffUnarmed ==
  [][\A l \in 0..indexLayerStack' :
       IF l > indexLayerStack
         THEN (pluginLayers'[l].trigTimeMsecs = 0) <=> ~ArmedBy(call', l)
       ELSE IF msecs' = msecs /\ ArmedBy(call', l)
         THEN pluginLayers'[l].trigTimeMsecs # 0
       ELSE (pluginLayers'[l].trigTimeMsecs = 0) <=> (pluginLayers[l].trigTimeMsecs = 0)]_vars

---------------------------------------------------------------------------
(* SpecWin: a host that sets the segment and the window of one track.       *)
(* X sets the offset of the segment, Y2 makes it shorter than the strip,    *)
(* J and K set the window from percentages, U turns the direction.          *)

NextWin ==
  \/ \E cmdstr \in Singles({ Tok("X", << 1 >>), Tok("X", << 2 >>),
                             Tok("Y", << 2 >>), Tok("Y", << >>), Tok("E", << 0 >>),
                             Tok("J", << 5, 0 >>), Tok("J", << 1, 0, 0 >>),
                             Tok("K", << 5, 0 >>), Tok("K", << 1, 0, 0 >>),
                             Tok("U", << >>), Tok("T", << >>), Tok("G", << >>),
                             Tok("P", << >>) }) :
       ExecCmdStr(cmdstr, Input(TRUE, 0, 0, Black))
  \/ UpdateEffects(Input(TRUE, 0, 0, Black))

SpecWin == InitRun /\ [][NextWin]_vars

\* C30: every source pixel that updateEffects merges from a track's redraw
\* buffer lies inside the buffer: its index is below the track's segCount
\* (byte index below 3*segCount)
C30_ReadsInsideBuffer ==
  call.op = "updateEffects" =>
    \A k \in 1..Len(call.merged) :
      /\ call.merged[k][3] >= 0
      /\ call.merged[k][3] < pluginTracks[call.merged[k][1]].segCount

---------------------------------------------------------------------------
(* SpecDelay: a host that sets the delay of a track with D and the delay    *)
(* offset of the engine, and calls updateEffects while the clock advances   *)
(* millisecond by millisecond.                                              *)

\* setDelayOffset(offs)
SetDelayOffset(offs) == Propertied("setDelayOffset", setDelayOffset(Eng, offs))

NextDelay ==
  \/ \E cmdstr \in Singles({ Tok("E", << 0 >>), Tok("D", << 1 >>), Tok("D", << 2 >>),
                             Tok("T", << >>), Tok("G", << >>) }) :
       ExecCmdStr(cmdstr, Input(TRUE, 0, 0, Black))
  \/ \E offs \in { -1, 0, 1 } : SetDelayOffset(offs)
  \/ UpdateEffects(Input(TRUE, 0, 0, Black))
  \/ Tick(1)

SpecDelay == InitRun /\ [][NextDelay]_vars

\* C29: an updateEffects call at time 'now' that steps a track sets the
\* track's msTimeRedraw to now + max(1, msecsDelay + delayOffset); it steps a
\* track only if the track's redraw layer is trigActive and msTimeRedraw <= now,
\* and leaves msTimeRedraw alone otherwise; an updateEffects call that directly
\* follows another one at the same millisecond does not step again a track
\* that one stepped
C29_Reschedule ==
  [][(call'.op = "updateEffects" /\ msecs' = msecs)
       => \A t \in 0..indexTrackStack :
            IF SteppedIn(call', pluginTracks[t].layer)
              THEN /\ pluginTracks'[t].msTimeRedraw =
                        msecs + Max(1, pluginTracks'[t].draw.msecsDelay + delayOffset)
                   /\ pluginLayers[pluginTracks[t].layer].trigActive
                   /\ pluginTracks[t].msTimeRedraw <= msecs
                   /\ ~(call.op = "updateEffects" /\ timePrevUpdate = msecs
                          /\ SteppedIn(call, pluginTracks[t].layer))
              ELSE pluginTracks'[t].msTimeRedraw = pluginTracks[t].msTimeRedraw]_vars

\* C29 witness: at 1 ms updateEffects stepped a track whose delay is 2 ms with
\* a delay offset of -1: the next redraw is 1 ms later
C29_SteppedLater ==
  /\ call.op = "updateEffects"
  /\ msecs = 1
  /\ indexTrackStack = 0
  /\ SteppedIn(call, pluginTracks[0].layer)
  /\ pluginTracks[0].draw.msecsDelay = 2
  /\ delayOffset = -1
  /\ pluginTracks[0].msTimeRedraw = 2

---------------------------------------------------------------------------
(* SpecComet: a host that stacks PNP_CometHeads tracks, makes a layer its   *)
(* own trigger source or the source of the other one with A, and sets the   *)
(* force 0 with F0 so that a head does not repeat and is gone at the end    *)
(* of the window, which makes the plugin send its force.                    *)

NextComet ==
  \/ \E cmdstr \in Singles({ Tok("E", << 2, 0 >>), Tok("A", << >>), Tok("A", << 1 >>),
                             Tok("F", << 0 >>), Tok("T", << >>), Tok("G", << >>) }) :
       ExecCmdStr(cmdstr, Input(TRUE, 0, 0, Black))
  \/ UpdateEffects(Input(TRUE, 0, 0, Black))

SpecComet == InitSched /\ [][NextComet]_vars

\* the entry of the log of the last call with the nextstep in which the
\* trigger of entry k was sent: the last nextstep before k, 0 if there is none
SenderOf(k) ==
  LET before == { j \in 1..(k - 1) : call.events[j].ev = "nextstep" }
  IN  IF before = {} THEN 0 ELSE CHOOSE j \in before : \A m \in before : m <= j

\* C28: every call completes after a bounded number of plugin calls, also
\* when layers are their own trigger source or each other's: a call steps a
\* layer at most once, and a force sent from the nextstep of a layer fires
\* exactly once, in increasing index, each layer whose trigSource is the
\* sender and no other layer; a fired layer does not fire any further layer
C28_ForceRouted ==
  /\ ~call.runaway
  /\ \A j, k \in EntriesOf({"nextstep"}) : j # k => call.events[j].i # call.events[k].i
  /\ \A k \in EntriesOf({"trigger"}) :
       SenderOf(k) # 0 =>
         /\ pluginLayers[call.events[k].i].trigSource = call.events[SenderOf(k)].i
         /\ \A m \in EntriesOf({"trigger"}) :
              (m < k /\ SenderOf(m) = SenderOf(k)) => call.events[m].i < call.events[k].i
  /\ Cardinality(EntriesOf({"trigger", "nextstep"}))
       <= (indexLayerStack + 1) * (indexLayerStack + 2)

\* C28 witness: updateEffects stepped a layer that is its own trigger source,
\* the plugin sent its force and the layer itself was fired by it
C28_SelfSource ==
  /\ call.op = "updateEffects"
  /\ \E k \in EntriesOf({"trigger"}) :
       /\ SenderOf(k) # 0
       /\ call.events[SenderOf(k)].i = call.events[k].i
       /\ pluginLayers[call.events[k].i].trigSource = call.events[k].i

---------------------------------------------------------------------------
(* Segments and windows *)

\* C31: the segment of every track lies inside the strip: segCount is at
\* least 1 and segOffset + segCount is at most numPixels
C31_SegmentInStrip ==
  \A t \in 0..indexTrackStack :
    /\ pluginTracks[t].segCount >= 1
    /\ pluginTracks[t].segOffset + pluginTracks[t].segCount <= numPixels

\* the entries of the merge log of the last call that belong to track t
MergedOf(t) == { k \in 1..Len(call.merged) : call.merged[k][1] = t }

\* C32: the merge loop of every track that updateEffects merges ends, having
\* visited exactly pixLen display pixels, each once and each inside
\* 0..numPixels-1
C32_MergeVisitsWindow ==
  call.op = "updateEffects" =>
    /\ ~call.runaway
    /\ ~call.oobWrite
    /\ \A k \in EntriesOf({"merge"}) :
         /\ Cardinality(MergedOf(call.events[k].i))
              = pluginTracks[call.events[k].i].draw.pixLen
         /\ \A m \in MergedOf(call.events[k].i) :
              /\ call.merged[m][2] \in 0..(numPixels - 1)
              /\ \A j \in MergedOf(call.events[k].i) :
                   j # m => call.merged[j][2] # call.merged[m][2]

\* C32 witness: updateEffects merged a track that draws downwards and whose
\* window of two pixels starts at the last pixel of the strip (offset 1,
\* start 1) and so wraps round to pixel 0
C32_WrappedDownwards ==
  /\ call.op = "updateEffects"
  /\ indexTrackStack = 0
  /\ pluginTracks[0].segOffset = 1
  /\ pluginTracks[0].draw.pixStart = 1
  /\ pluginTracks[0].draw.pixLen = 2
  /\ ~pluginTracks[0].draw.goUpwards
  /\ Len(call.merged) = 2
  /\ call.merged[1][2] = 0
  /\ call.merged[2][2] = numPixels - 1

---------------------------------------------------------------------------
(* SpecForce: a host that calls triggerForce with forces inside and outside *)
(* 0..MAX_FORCE_VALUE and adds layers afterwards; F sets the random         *)
(* sentinel, F5 a force, T fires the top layer.                             *)

NextForce ==
  \/ \E cmdstr \in Singles({ Tok("E", << 0 >>), Tok("E", << 1, 0, 0 >>), Tok("F", << >>),
                             Tok("F", << 5 >>), Tok("I", << >>), Tok("T", << >>),
                             Tok("G", << >>), Tok("P", << >>) }) :
       ExecCmdStr(cmdstr, Input(TRUE, 7, 0, Black))
  \/ \E force \in { -5, MAX_FORCE_VALUE \div 2, 2 * MAX_FORCE_VALUE } : TriggerForce(force)
  \/ UpdateEffects(Input(TRUE, 7, 0, Black))

SpecForce == InitRun /\ [][NextForce]_vars

\* C33: the trigForce of every layer is in 0..MAX_FORCE_VALUE or is the
\* sentinel -1 that asks for a random force
C33_ForceInRange ==
  \A l \in 0..indexLayerStack :
    pluginLayers[l].trigForce \in (0..MAX_FORCE_VALUE) \cup { -1 }

---------------------------------------------------------------------------
(* SpecSink: a host that loads a pattern of PNP_CometHeads tracks and a     *)
(* PNP_HueSet predraw layer in which layer 0 is the trigger source of       *)
(* itself or of the later layers, then fires the top layer with T and calls *)
(* updateEffects while the clock advances millisecond by millisecond.       *)

NextSink ==
  \/ /\ indexLayerStack = -1
     /\ \E cmdstr \in
          { << Tok("E", << 2, 0 >>), Tok("F", << 0 >>), Tok("T", << >>), Tok("T", << >>) >>
              \o rest :
              rest \in { << Tok("G", << >>) >>,
                         << Tok("A", << >>), Tok("G", << >>) >>,
                         << Tok("E", << 1, 0, 0 >>), Tok("A", << >>), Tok("G", << >>) >>,
                         << Tok("E", << 1, 0, 0 >>), Tok("A", << >>),
                            Tok("E", << 2, 0 >>), Tok("A", << >>), Tok("G", << >>) >>,
                         << Tok("E", << 1, 0, 0 >>), Tok("A", << >>), Tok("T", << >>),
                            Tok("E", << 2, 0 >>), Tok("A", << >>), Tok("T", << >>) >> } } :
          ExecCmdStr(cmdstr, Input(TRUE, 0, 0, Black))
  \/ \E cmdstr \in Singles({ Tok("T", << >>), Tok("G", << >>), Tok("P", << >>) }) :
       ExecCmdStr(cmdstr, Input(TRUE, 0, 0, Black))
  \/ UpdateEffects(Input(TRUE, 0, 0, Black))
  \/ Tick(1)

SpecSink == InitSched /\ [][NextSink]_vars


\* the draw sink a plugin call of layer l is to find: nothing for a predraw
\* layer, the redraw buffer of the layer's own track for a redraw layer
SinkOf(l) ==
  IF RedrawLayer(l)
    THEN SinkRedraw(pluginTracks[pluginLayers[l].track].pRedrawBuff)
    ELSE SinkNull

\* C34: every trigger and nextstep call of a plugin, also a trigger sent from
\* the nextstep of another layer, finds pDrawPixels null (predraw layer) or the
\* redraw buffer of the layer's own track (redraw layer), never the display
\* buffer; after every call of the engine pDrawPixels is the display buffer;
\* and an updateEffects call that returns false leaves the display buffer as
\* it was
C34_SinkNeverDisplay ==
  /\ [](/\ pDrawPixels = SinkDisplay
        /\ \A k \in 1..Len(call.sinks) :
             /\ call.sinks[k][2] = SinkOf(call.sinks[k][1])
             /\ call.sinks[k][2].kind # "display")
  /\ [][(call'.op = "updateEffects" /\ ~call'.doshow)
          => displayPixels' = displayPixels]_vars

\* C34 witness: in one updateEffects call the nextstep of a PNP_CometHeads
\* layer sent its force to a predraw layer of its track and to the redraw
\* layer of the other track: the first found no sink, the second the buffer of
\* its own track
C34_NestedSinks ==
  /\ call.op = "updateEffects"
  /\ \E k \in EntriesOf({"trigger"}) : \E m \in EntriesOf({"trigger"}) :
       /\ SenderOf(k) # 0 /\ SenderOf(m) = SenderOf(k)
       /\ ~RedrawLayer(call.events[k].i)
       /\ RedrawLayer(call.events[m].i)
       /\ pluginLayers[call.events[m].i].track
            # pluginLayers[call.events[SenderOf(m)].i].track
  /\ \E k \in 1..Len(call.sinks) : call.sinks[k][2].kind = "null"
  /\ \E k \in 1..Len(call.sinks) : \E m \in 1..Len(call.sinks) :
       /\ call.sinks[k][2].kind = "redraw" /\ call.sinks[m][2].kind = "redraw"
       /\ call.sinks[k][2].addr # call.sinks[m][2].addr


===========================================================================
